---- MODULE Spec2Model ----
(***************************************************************************)
(* The dice engine of Bishop-bot: DiceManager (src/src/game/dice.py) and   *)
(* the two Character methods it calls (src/src/characters/manager.py).     *)
(*                                                                         *)
(* A Python string is a sequence of one-character strings; a call of the   *)
(* engine is a run of the state machine from pc = "idle" to pc = "done",   *)
(* one step per parse, per die drawn from the PRNG and per result built.   *)
(***************************************************************************)
EXTENDS Integers, Sequences, FiniteSets, TLC

(***************************************************************************)
(* Bounds of the model.                                                    *)
(***************************************************************************)
\* dice counts 0..MaxCount and sides 0..MaxSides of the generated expressions
MaxCount == 2
MaxSides == 3
\* keep counts 0..MaxKeep written after k and x
MaxKeep == 2
\* modifiers 0..MaxMod written after + and -
MaxMod == 1
\* explosion re-rolls recorded per call; further ones are drawn, not recorded
MaxExplode == 2
\* draws of a call that is made a second time with the PRNG seeded
MaxSeed == 3

(***************************************************************************)
(* Characters and strings.                                                 *)
(***************************************************************************)
DigitChars == <<"0", "1", "2", "3", "4", "5", "6", "7", "8", "9">>
LowerChars == <<"a", "b", "c", "d", "e", "f", "g", "h", "i", "j", "k", "l", "m",
                "n", "o", "p", "q", "r", "s", "t", "u", "v", "w", "x", "y", "z">>
UpperChars == <<"A", "B", "C", "D", "E", "F", "G", "H", "I", "J", "K", "L", "M",
                "N", "O", "P", "Q", "R", "S", "T", "U", "V", "W", "X", "Y", "Z">>

Range(s) == {s[k] : k \in DOMAIN s}

\* \d of the re module
IsDigit(c) == c \in Range(DigitChars)
IsLetter(c) == c \in Range(LowerChars) \cup Range(UpperChars)
\* \w of the re module
IsWord(c) == IsDigit(c) \/ IsLetter(c) \/ c = "_"
\* \s of the re module
IsSpace(c) == c \in {" ", "\t"}
\* [+-]
IsSign(c) == c \in {"+", "-"}
\* [adkxr!><]
IsTag(c) == c \in {"a", "d", "k", "x", "r", "!", ">", "<"}

DigitVal(c) == (CHOOSE k \in DOMAIN DigitChars : DigitChars[k] = c) - 1

\* str.lower() and str.upper(), one character
LowerChar(c) ==
    IF c \in Range(UpperChars)
    THEN LowerChars[CHOOSE k \in DOMAIN UpperChars : UpperChars[k] = c]
    ELSE c
UpperChar(c) ==
    IF c \in Range(LowerChars)
    THEN UpperChars[CHOOSE k \in DOMAIN LowerChars : LowerChars[k] = c]
    ELSE c

\* str.lower()
Lower(s) == [k \in DOMAIN s |-> LowerChar(s[k])]
\* str.upper()
Upper(s) == [k \in DOMAIN s |-> UpperChar(s[k])]
\* str.title(): a letter is upper-cased after a non-letter, lower-cased after a letter
Title(s) ==
    [k \in DOMAIN s |->
        IF k > 1 /\ IsLetter(s[k - 1]) THEN LowerChar(s[k]) ELSE UpperChar(s[k])]
\* str.replace(' ', '')
RECURSIVE StripSpaces(_)
StripSpaces(s) ==
    IF s = <<>> THEN <<>>
    ELSE IF Head(s) = " " THEN StripSpaces(Tail(s))
         ELSE <<Head(s)>> \o StripSpaces(Tail(s))

\* s[a:b] with 1-based inclusive a and exclusive b
Slice(s, a, b) == SubSeq(s, a, b - 1)

\* the index after the longest run of characters of one class starting at p
RECURSIVE DigitsEnd(_, _)
DigitsEnd(s, p) ==
    IF p <= Len(s) /\ IsDigit(s[p]) THEN DigitsEnd(s, p + 1) ELSE p
RECURSIVE WordEnd(_, _)
WordEnd(s, p) ==
    IF p <= Len(s) /\ IsWord(s[p]) THEN WordEnd(s, p + 1) ELSE p
RECURSIVE SpaceEnd(_, _)
SpaceEnd(s, p) ==
    IF p <= Len(s) /\ IsSpace(s[p]) THEN SpaceEnd(s, p + 1) ELSE p

\* s.startswith(w, p - 1)
StartsWithAt(s, p, w) ==
    /\ p + Len(w) - 1 <= Len(s)
    /\ \A k \in DOMAIN w : s[p + k - 1] = w[k]

\* int() of a string of decimal digits
RECURSIVE StrToInt(_)
StrToInt(ds) ==
    IF ds = <<>> THEN 0
    ELSE 10 * StrToInt(SubSeq(ds, 1, Len(ds) - 1)) + DigitVal(ds[Len(ds)])

\* str() of an integer, as an f-string formats it
RECURSIVE NatToStr(_)
NatToStr(n) ==
    IF n < 10 THEN <<DigitChars[n + 1]>>
    ELSE NatToStr(n \div 10) \o <<DigitChars[(n % 10) + 1]>>
IntToStr(n) == IF n < 0 THEN <<"-">> \o NatToStr(-n) ELSE NatToStr(n)

\* sum() of a list of integers
RECURSIVE Sum(_)
Sum(s) == IF s = <<>> THEN 0 ELSE Head(s) + Sum(Tail(s))

\* sorted(rolls): ascending; the k-th place holds the value v with fewer
\* than k elements below it and at least k elements not above it
Sorted(s) ==
    [k \in DOMAIN s |->
        CHOOSE v \in Range(s) :
            /\ Cardinality({j \in DOMAIN s : s[j] < v}) < k
            /\ k <= Cardinality({j \in DOMAIN s : s[j] <= v})]
\* sorted(rolls, reverse=True)
SortedReverse(s) ==
    LET a == Sorted(s) IN [k \in DOMAIN a |-> a[Len(a) + 1 - k]]

(***************************************************************************)
(* The grammars: DICE_PATTERN, ADV_DICE_PATTERN and OPERATORS, matched as  *)
(* re.match and re.finditer match them (greedy, leftmost).                 *)
(***************************************************************************)
\* DICE_PATTERN.match(s): (\d+)d(\d+)(?:([+-])(\d+))? at the start of s;
\* an unmatched group is the empty sequence
DICE_PATTERN_match(s) ==
    LET e1 == DigitsEnd(s, 1)
        e2 == DigitsEnd(s, e1 + 1)
        e4 == DigitsEnd(s, e2 + 1)
        found == e1 > 1 /\ e1 <= Len(s) /\ s[e1] = "d" /\ e2 > e1 + 1
        tail == found /\ e2 <= Len(s) /\ IsSign(s[e2]) /\ e4 > e2 + 1
    IN  [found |-> found,
         group1 |-> IF found THEN Slice(s, 1, e1) ELSE <<>>,
         group2 |-> IF found THEN Slice(s, e1 + 1, e2) ELSE <<>>,
         group3 |-> IF tail THEN <<s[e2]>> ELSE <<>>,
         group4 |-> IF tail THEN Slice(s, e2 + 1, e4) ELSE <<>>]

\* the end of ((?:[+-]\d+|[adkxr!><]\d*)*) matched from p
RECURSIVE OptionsEnd(_, _)
OptionsEnd(s, p) ==
    IF p > Len(s) THEN p
    ELSE IF IsSign(s[p]) /\ DigitsEnd(s, p + 1) > p + 1
         THEN OptionsEnd(s, DigitsEnd(s, p + 1))
         ELSE IF IsTag(s[p]) THEN OptionsEnd(s, DigitsEnd(s, p + 1))
              ELSE p

\* the advanced pattern with a mandatory count: (\d+)d(\d+)(...)
ADV_DICE_PATTERN_match_with_count(s) ==
    LET e1 == DigitsEnd(s, 1)
        e2 == DigitsEnd(s, e1 + 1)
        found == e1 > 1 /\ e1 <= Len(s) /\ s[e1] = "d" /\ e2 > e1 + 1
    IN  [found |-> found,
         group1 |-> IF found THEN Slice(s, 1, e1) ELSE <<>>,
         group2 |-> IF found THEN Slice(s, e1 + 1, e2) ELSE <<>>,
         group3 |-> IF found THEN Slice(s, e2, OptionsEnd(s, e2)) ELSE <<>>]

\* ADV_DICE_PATTERN.match(s): (?:(\d+))?d(\d+)((?:[+-]\d+|[adkxr!><]\d*)*)
ADV_DICE_PATTERN_match(s) ==
    LET e1 == DigitsEnd(s, 1)
        e2 == DigitsEnd(s, e1 + 1)
        found == e1 <= Len(s) /\ s[e1] = "d" /\ e2 > e1 + 1
    IN  [found |-> found,
         group1 |-> IF found THEN Slice(s, 1, e1) ELSE <<>>,
         group2 |-> IF found THEN Slice(s, e1 + 1, e2) ELSE <<>>,
         group3 |-> IF found THEN Slice(s, e2, OptionsEnd(s, e2)) ELSE <<>>]

\* a search without the $: the leftmost sign with a digit after it
mod_match_first(options) ==
    LET starts == {p \in DOMAIN options :
                      /\ IsSign(options[p])
                      /\ DigitsEnd(options, p + 1) > p + 1}
        found == starts # {}
        start == IF found THEN CHOOSE p \in starts : \A q \in starts : p <= q ELSE 1
    IN  [found |-> found,
         start |-> start,
         group1 |-> IF found THEN options[start] ELSE "",
         group2 |-> IF found THEN Slice(options, start + 1, DigitsEnd(options, start + 1))
                    ELSE <<>>]

\* re.search(r'([+-])(\d+)$', options): the leftmost sign that only digits,
\* and at least one, follow to the end
mod_match(options) ==
    LET starts == {p \in DOMAIN options :
                      /\ IsSign(options[p])
                      /\ p < Len(options)
                      /\ DigitsEnd(options, p + 1) = Len(options) + 1}
        found == starts # {}
        start == IF found THEN CHOOSE p \in starts : \A q \in starts : p <= q ELSE 1
    IN  [found |-> found,
         start |-> start,
         group1 |-> IF found THEN options[start] ELSE "",
         group2 |-> IF found THEN Slice(options, start + 1, Len(options) + 1) ELSE <<>>]

\* the option values before "Parse special operators"
DefaultOptions ==
    [advantage |-> FALSE, disadvantage |-> FALSE, keep_highest |-> 0,
     keep_lowest |-> 0, exploding |-> FALSE, reroll_threshold |-> 0]

\* an iteration where the flag read last wins: a clears d and d clears a
ApplyOperator_last_flag(o, op, value, num_dice) ==
    CASE op = "a" -> [o EXCEPT !.advantage = TRUE, !.disadvantage = FALSE]
      [] op = "d" -> [o EXCEPT !.disadvantage = TRUE, !.advantage = FALSE]
      [] op = "k" -> [o EXCEPT !.keep_highest = IF value # 0 THEN value ELSE num_dice]
      [] op = "x" -> [o EXCEPT !.keep_lowest = IF value # 0 THEN value ELSE num_dice]
      [] op = "!" -> [o EXCEPT !.exploding = TRUE]
      [] op = "r" -> [o EXCEPT !.reroll_threshold = IF value # 0 THEN value ELSE 1]
      [] OTHER -> o

\* one iteration of "for op_match in self.OPERATORS.finditer(options)"
ApplyOperator(o, op, value, num_dice) ==
    CASE op = "a" -> [o EXCEPT !.advantage = TRUE]
      [] op = "d" -> [o EXCEPT !.disadvantage = TRUE]
      [] op = "k" -> [o EXCEPT !.keep_highest = IF value # 0 THEN value ELSE num_dice]
      [] op = "x" -> [o EXCEPT !.keep_lowest = IF value # 0 THEN value ELSE num_dice]
      [] op = "!" -> [o EXCEPT !.exploding = TRUE]
      [] op = "r" -> [o EXCEPT !.reroll_threshold = IF value # 0 THEN value ELSE 1]
      [] OTHER -> o

\* OPERATORS.finditer(options) from p on: ([adkxr!><])(\d*), skipping what
\* matches nothing
RECURSIVE ParseOperators(_, _, _, _)
ParseOperators(options, p, o, num_dice) ==
    IF p > Len(options) THEN o
    ELSE IF IsTag(options[p])
         THEN LET e == DigitsEnd(options, p + 1)
                  value == IF e > p + 1 THEN StrToInt(Slice(options, p + 1, e)) ELSE 0
              IN  ParseOperators(options, e,
                                 ApplyOperator(o, options[p], value, num_dice), num_dice)
         ELSE ParseOperators(options, p + 1, o, num_dice)

\* "Validate input" without the limit of 100 dice
RollValidate_no_max_dice(num_dice, sides) ==
    /\ ~(num_dice <= 0 \/ sides <= 0)
    /\ ~(sides > 1000)

(***************************************************************************)
(* DiceManager.parse_expression and the validation of roll / roll_advanced *)
(***************************************************************************)
\* parse_expression: ok is FALSE where the code raises ValueError
parse_expression(expression) ==
    LET match == DICE_PATTERN_match(StripSpaces(Lower(expression)))
        hasMod == match.group3 # <<>> /\ match.group4 # <<>>
    IN  [ok |-> match.found,
         num_dice |-> StrToInt(match.group1),
         sides |-> StrToInt(match.group2),
         operator |-> IF hasMod THEN match.group3[1] ELSE "+",
         modifier |-> IF hasMod THEN StrToInt(match.group4) ELSE 0]

\* "Validate input" of roll: FALSE where one of the three checks raises
RollValidate(num_dice, sides) ==
    /\ ~(num_dice <= 0 \/ sides <= 0)
    /\ ~(num_dice > 100)
    /\ ~(sides > 1000)

\* "Validate input" of roll_advanced with a limit of one die
AdvValidate_one_die(num_dice, sides) ==
    /\ ~(num_dice <= 0 \/ sides <= 0)
    /\ ~(num_dice > 1)
    /\ ~(sides > 1000)

\* "Validate input" of roll_advanced
AdvValidate(num_dice, sides) ==
    /\ ~(num_dice <= 0 \/ sides <= 0)
    /\ ~(num_dice > 100)
    /\ ~(sides > 1000)

\* roll_advanced up to "Roll dice with options": the match, the modifier
\* taken from the end of the options, the option flags
AdvParse(expression) ==
    LET match == ADV_DICE_PATTERN_match(StripSpaces(Lower(expression)))
        num_dice == IF match.group1 # <<>> THEN StrToInt(match.group1) ELSE 1
        sides == StrToInt(match.group2)
        mm == mod_match(match.group3)
        mod_value == StrToInt(mm.group2)
        modifier == IF mm.found
                    THEN (IF mm.group1 = "+" THEN mod_value ELSE -mod_value)
                    ELSE 0
        options == IF mm.found THEN Slice(match.group3, 1, mm.start) ELSE match.group3
    IN  [ok |-> match.found,
         num_dice |-> num_dice,
         sides |-> sides,
         modifier |-> modifier,
         options |-> ParseOperators(options, 1, DefaultOptions, num_dice)]

\* "Apply modifier" that ignores the operator
ApplyModifier_add(dice_sum, operator, modifier) == dice_sum + modifier

\* randint with the lower end off by one
randint_from_zero(a, b) == (a - 1)..b

\* "Apply modifier" of roll
ApplyModifier(dice_sum, operator, modifier) ==
    IF operator = "+" THEN dice_sum + modifier ELSE dice_sum - modifier

\* random.randint(a, b): the values one draw of the PRNG can give
randint(a, b) == a..b

\* keep-highest that sorts ascending
KeepHighest_ascending(rolls, keep_highest) ==
    IF keep_highest > 0 /\ keep_highest < Len(rolls)
    THEN SubSeq(Sorted(rolls), 1, keep_highest)
    ELSE rolls

\* keep-lowest that sorts descending
KeepLowest_descending(rolls, keep_lowest) ==
    IF keep_lowest > 0 /\ keep_lowest < Len(rolls)
    THEN SubSeq(SortedReverse(rolls), 1, keep_lowest)
    ELSE rolls

\* advantage/disadvantage that keeps the first set rolled
AdvSelect_first(advantage, roll1, roll2) == roll1

\* "Handle keeping highest/lowest", first if
KeepHighest(rolls, keep_highest) ==
    IF keep_highest > 0 /\ keep_highest < Len(rolls)
    THEN SubSeq(SortedReverse(rolls), 1, keep_highest)
    ELSE rolls

\* keep-lowest without the test keep_lowest > 0
KeepLowest_unguarded(rolls, keep_lowest) ==
    IF keep_lowest < Len(rolls)
    THEN SubSeq(Sorted(rolls), 1, keep_lowest)
    ELSE rolls

\* "Handle keeping highest/lowest", second if
KeepLowest(rolls, keep_lowest) ==
    IF keep_lowest > 0 /\ keep_lowest < Len(rolls)
    THEN SubSeq(Sorted(rolls), 1, keep_lowest)
    ELSE rolls

\* the two keep steps in the other order: keep-lowest first
Keep_lowest_first(rolls, keep_highest, keep_lowest) ==
    KeepHighest(KeepLowest(rolls, keep_lowest), keep_highest)

\* "Handle keeping highest/lowest": the first if, then the second
Keep(rolls, keep_highest, keep_lowest) ==
    CHOOSE kept \in {KeepLowest(highest, keep_lowest) :
                        highest \in {KeepHighest(rolls, keep_highest)}} : TRUE

\* "Handle advantage/disadvantage": the set kept of the two rolled
AdvSelect(advantage, roll1, roll2) ==
    IF advantage
    THEN (IF Sum(roll1) > Sum(roll2) THEN roll1 ELSE roll2)
    ELSE (IF Sum(roll1) < Sum(roll2) THEN roll1 ELSE roll2)

(***************************************************************************)
(* The breakdown strings of roll and roll_advanced.                        *)
(***************************************************************************)
\* ", ".join(map(str, rolls))
RECURSIVE Joined(_)
Joined(r) ==
    IF r = <<>> THEN <<>>
    ELSE IF Len(r) = 1 THEN IntToStr(r[1])
         ELSE IntToStr(r[1]) \o <<",", " ">> \o Joined(Tail(r))
\* str(rolls) of a list of integers, as f"{rolls}" formats it
ListStr(r) == <<"[">> \o Joined(r) \o <<"]">>

\* a breakdown of roll that writes the modifier also when it is 0
RollBreakdown_always(dice_sum, operator, modifier) ==
    IntToStr(dice_sum) \o <<" ", operator, " ">> \o IntToStr(modifier)

\* breakdown of roll: f"{dice_sum} + {modifier}" or f"{dice_sum} - {modifier}"
\* if modifier != 0 else str(dice_sum)
RollBreakdown(dice_sum, operator, modifier) ==
    IF modifier # 0
    THEN IntToStr(dice_sum) \o <<" ", operator, " ">> \o IntToStr(modifier)
    ELSE IntToStr(dice_sum)

\* f"Advantage: {sum(roll1)} vs {sum(roll2)}" and its disadvantage twin
SelectBreakdown(advantage, roll1, roll2) ==
    (IF advantage THEN <<"A", "d", "v", "a", "n", "t", "a", "g", "e">> ELSE <<"D", "i", "s", "a", "d", "v", "a", "n", "t", "a", "g", "e">>)
    \o <<":", " ">> \o IntToStr(Sum(roll1)) \o <<" ", "v", "s", " ">>
    \o IntToStr(Sum(roll2))

\* f"Exploding: {rolls}" and f"Rolls: {rolls}"
RollsBreakdown(exploding, rolls) ==
    (IF exploding THEN <<"E", "x", "p", "l", "o", "d", "i", "n", "g", ":", " ">>
     ELSE <<"R", "o", "l", "l", "s", ":", " ">>) \o ListStr(rolls)

\* f" (Rerolls: {reroll_threshold}+)"
RerollSuffix(reroll_threshold) ==
    <<" ", "(", "R", "e", "r", "o", "l", "l", "s", ":", " ">>
    \o IntToStr(reroll_threshold) \o <<"+", ")">>

\* f" (Keep highest {keep_highest})" and f" (Keep lowest {keep_lowest})" under
\* the condition of their if
KeepSuffix(word, keep, rolls) ==
    IF keep > 0 /\ keep < Len(rolls)
    THEN <<" ", "(", "K", "e", "e", "p", " ">> \o word \o <<" ">> \o IntToStr(keep) \o <<")">>
    ELSE <<>>

\* "Update breakdown with modifier": f" {modifier_sign} {modifier_abs}"
ModifierTerm(modifier) ==
    IF modifier # 0
    THEN <<" ", IF modifier > 0 THEN "+" ELSE "-", " ">>
         \o IntToStr(IF modifier > 0 THEN modifier ELSE -modifier)
    ELSE <<>>

\* breakdown of roll_advanced after "Handle keeping highest/lowest"
KeepBreakdown(breakdown, rolls, keep_highest, keep_lowest) ==
    breakdown
    \o KeepSuffix(<<"h", "i", "g", "h", "e", "s", "t">>, keep_highest, rolls)
    \o KeepSuffix(<<"l", "o", "w", "e", "s", "t">>, keep_lowest, KeepHighest(rolls, keep_highest))

(***************************************************************************)
(* parse_dice_in_text: the two patterns re.finditer scans the text with.   *)
(* A trailing \b that fails makes the match give back what it took last.   *)
(***************************************************************************)
\* \b at p: of s[p - 1] and s[p] exactly one is a word character
Boundary(s, p) ==
    (p > 1 /\ IsWord(s[p - 1])) # (p <= Len(s) /\ IsWord(s[p]))

\* where \b(\d+d\d+(?:[+-]\d+)?)\b matched at p ends, 0 when it does not match
StandardEnd(s, p) ==
    LET e1 == DigitsEnd(s, p)
        e2 == DigitsEnd(s, e1 + 1)
        e4 == DigitsEnd(s, e2 + 1)
        head == Boundary(s, p) /\ e1 > p /\ e1 <= Len(s) /\ s[e1] = "d" /\ e2 > e1 + 1
        tail == e2 <= Len(s) /\ IsSign(s[e2]) /\ e4 > e2 + 1
    IN  IF ~head THEN 0
        ELSE IF tail /\ Boundary(s, e4) THEN e4
             ELSE IF Boundary(s, e2) THEN e2 ELSE 0

\* the ends of (?:[adkxr!><]\d*)* from p after 0, 1, 2, ... repetitions
RECURSIVE TagEnds(_, _)
TagEnds(s, p) ==
    IF p <= Len(s) /\ IsTag(s[p])
    THEN <<p>> \o TagEnds(s, DigitsEnd(s, p + 1))
    ELSE <<p>>

\* where \b(?:\d+)?d\d+(?:[adkxr!><]\d*)*(?:[+-]\d+)?\b matched at p ends,
\* 0 when it does not match: the most repetitions a \b follows
AdvancedEnd(s, p) ==
    LET e1 == DigitsEnd(s, p)
        e2 == DigitsEnd(s, e1 + 1)
        head == Boundary(s, p) /\ e1 <= Len(s) /\ s[e1] = "d" /\ e2 > e1 + 1
        ends == TagEnds(s, e2)
        last == ends[Len(ends)]
        e4 == DigitsEnd(s, last + 1)
        tail == last <= Len(s) /\ IsSign(s[last]) /\ e4 > last + 1
        bounded == {j \in DOMAIN ends : Boundary(s, ends[j])}
    IN  IF ~head THEN 0
        ELSE IF tail /\ Boundary(s, e4) THEN e4
             ELSE IF bounded = {} THEN 0
                  ELSE ends[CHOOSE j \in bounded : \A q \in bounded : q <= j]

\* re.finditer(pattern, text) from p on, as the set of the matched strings
RECURSIVE FindAll(_, _, _)
FindAll(pattern, s, p) ==
    IF p > Len(s) THEN {}
    ELSE LET e == IF pattern = "standard" THEN StandardEnd(s, p) ELSE AdvancedEnd(s, p)
         IN  IF e > 0
             THEN {Slice(s, p, e)} \cup FindAll(pattern, s, e)
             ELSE FindAll(pattern, s, p + 1)

\* set(expressions) after the two extend calls
Candidates(text) == FindAll("standard", text, 1) \cup FindAll("advanced", text, 1)

\* list(set(expressions)) after sort(key=len, reverse=True): the order of
\* a set is arbitrary and the sort keeps it among strings of one length
SortedByLength(S) ==
    {q \in [1..Cardinality(S) -> S] :
        /\ \A a, b \in DOMAIN q : a # b => q[a] # q[b]
        /\ \A a, b \in DOMAIN q : a < b => Len(q[a]) >= Len(q[b])}

(***************************************************************************)
(* Character: what roll_with_context reads of the actor.  kind is "none"   *)
(* for character=None, "character" for a Character and "raising" for an    *)
(* actor whose get_ability_modifier and get_skill_bonus raise.             *)
(***************************************************************************)
\* names of attributes and of skills of the default template
Strength == <<"s", "t", "r", "e", "n", "g", "t", "h">>
Dexterity == <<"d", "e", "x", "t", "e", "r", "i", "t", "y">>
Wisdom == <<"w", "i", "s", "d", "o", "m">>
Stealth == <<"s", "t", "e", "a", "l", "t", "h">>
Athletics == <<"a", "t", "h", "l", "e", "t", "i", "c", "s">>
AnimalHandling == <<"a", "n", "i", "m", "a", "l", " ", "h", "a", "n", "d", "l", "i", "n", "g">>
SleightOfHand == <<"s", "l", "e", "i", "g", "h", "t", " ", "o", "f", " ", "h", "a", "n", "d">>

\* Character.get_ability_modifier
get_ability_modifier(character, ability) ==
    LET name == Lower(ability)
    IN  IF name \in DOMAIN character.attributes
        THEN (character.attributes[name] - 10) \div 2
        ELSE 0

\* Character.get_proficiency_bonus
get_proficiency_bonus(character) == 1 + ((character.level - 1) \div 4)

\* Character.get_skill_bonus
get_skill_bonus(character, skill) ==
    LET name == Lower(skill)
    IN  IF name \notin DOMAIN character.skills THEN 0
        ELSE LET skill_info == character.skills[name]
                 ability == IF "ability" \in DOMAIN skill_info
                            THEN skill_info.ability ELSE Dexterity
                 proficient == "proficient" \in DOMAIN skill_info /\ skill_info.proficient
                 expertise == "expertise" \in DOMAIN skill_info /\ skill_info.expertise
                 modifier == get_ability_modifier(character, ability)
                 prof_bonus == get_proficiency_bonus(character)
             IN  IF expertise THEN modifier + (prof_bonus * 2)
                 ELSE IF proficient THEN modifier + prof_bonus
                      ELSE modifier

(***************************************************************************)
(* roll_with_context: the two phrase patterns and the rewriting of an      *)
(* expression without the letter d.                                        *)
(***************************************************************************)
CheckWord == <<"c", "h", "e", "c", "k">>
SkillWord == <<"s", "k", "i", "l", "l">>
D20 == <<"1", "d", "2", "0">>

\* re.match(r'(\w+)\s+check', s)
ability_match(s) ==
    LET w == WordEnd(s, 1)
        sp == SpaceEnd(s, w)
        found == w > 1 /\ sp > w /\ StartsWithAt(s, sp, CheckWord)
    IN  [found |-> found, group1 |-> IF found THEN Slice(s, 1, w) ELSE <<>>]

\* re.match(r'(\w+(?:\s+\w+)?)\s+skill', s): two words are tried before one
skill_match(s) ==
    LET w1 == WordEnd(s, 1)
        sp1 == SpaceEnd(s, w1)
        w2 == WordEnd(s, sp1)
        sp2 == SpaceEnd(s, w2)
        two == w1 > 1 /\ sp1 > w1 /\ w2 > sp1 /\ sp2 > w2 /\ StartsWithAt(s, sp2, SkillWord)
        one == w1 > 1 /\ sp1 > w1 /\ StartsWithAt(s, sp1, SkillWord)
    IN  [found |-> two \/ one,
         group1 |-> IF two THEN Slice(s, 1, w2)
                    ELSE IF one THEN Slice(s, 1, w1) ELSE <<>>]

\* a dice expression that always writes the sign +
DiceExpr_plus(modifier) == D20 \o <<"+">> \o IntToStr(modifier)

\* f"1d20{mod_sign}{modifier}" with mod_sign = '+' if modifier >= 0 else ''
DiceExpr(modifier) ==
    D20 \o (IF modifier >= 0 THEN <<"+">> ELSE <<>>) \o IntToStr(modifier)

\* the bare integer without its optional sign: ^\d+$
IsBareInteger_unsigned(expression) ==
    expression # <<>> /\ DigitsEnd(expression, 1) = Len(expression) + 1

\* re.match(r'^[+-]?\d+$', expression)
IsBareInteger(expression) ==
    LET p == IF expression # <<>> /\ IsSign(expression[1]) THEN 2 ELSE 1
    IN  p <= Len(expression) /\ DigitsEnd(expression, p) = Len(expression) + 1

\* int(expression) of a string IsBareInteger accepts
BareInteger(expression) ==
    IF expression[1] = "-" THEN -StrToInt(Tail(expression))
    ELSE IF expression[1] = "+" THEN StrToInt(Tail(expression))
         ELSE StrToInt(expression)

\* "Standard roll": the expression handed to roll_advanced
StandardExpression(expression) ==
    IF "d" \notin Range(expression)
    THEN (IF IsBareInteger(expression)
          THEN DiceExpr(BareInteger(expression))
          ELSE D20)
    ELSE expression

\* handlers without the last resort: the exception of the fallback propagates
Handler_no_last(caller, at) ==
    CASE caller # "roll_with_context" -> "propagate"
      [] at = "adv" -> "simple"
      [] at \in {"check", "skill", "simple"} -> "fallback"
      [] OTHER -> "propagate"

\* result.expression of an ability check and of a skill check
CheckLabel(ability, dice_expr) ==
    Upper(ability) \o <<" ">> \o CheckWord \o <<" ", "(">> \o dice_expr \o <<")">>
SkillLabel(skill, dice_expr) ==
    Title(skill) \o <<" ">> \o CheckWord \o <<" ", "(">> \o dice_expr \o <<")">>

\* the handler an exception of the engine reaches in roll_with_context:
\* "simple" is except ValueError, "fallback" the outer except Exception,
\* "last" the bare except inside it; elsewhere the exception propagates
Handler(caller, at) ==
    CASE caller # "roll_with_context" -> "propagate"
      [] at = "adv" -> "simple"
      [] at \in {"check", "skill", "simple"} -> "fallback"
      [] at = "fallback" -> "last"
      [] OTHER -> "propagate"

\* a last resort that rolls the expression once more
HandlerArg_expression(h, expression) == expression

\* what the handler h rolls: self.roll(expression), or self.roll("1d20") as
\* the last resort
HandlerArg(h, expression) == IF h = "last" THEN D20 ELSE expression

(***************************************************************************)
(* The calls the model makes: expressions written from a count, a number   *)
(* of sides, option tags and a modifier, the expressions the specification *)
(* names, and check phrases with and without a character.                  *)
(***************************************************************************)
\* how an expression is written: <count>d<sides><options><sign><m>
Signed(sign, m) == IF sign = "" THEN <<>> ELSE <<sign>> \o IntToStr(m)
Expr(count, sides, options, sign, m) ==
    IntToStr(count) \o <<"d">> \o IntToStr(sides) \o options \o Signed(sign, m)

\* an input with the numbers it is written from
Dice(count, sides, options, sign, m) ==
    [kind |-> "dice", text |-> Expr(count, sides, options, sign, m),
     count |-> count, sides |-> sides, options |-> options, sign |-> sign, m |-> m]
\* an input that is not written that way
Text(t) ==
    [kind |-> "text", text |-> t,
     count |-> 0, sides |-> 0, options |-> <<>>, sign |-> "", m |-> 0]

Mods == {<<"", 0>>} \cup ({"+", "-"} \X (0..MaxMod))
KeepStrings(tag) == {<<tag>>} \cup {<<tag>> \o IntToStr(k) : k \in 0..MaxKeep}
BeforeKeep == {<<>>, <<"!">>, <<"r">>}
FlagStrings == {<<"a">>, <<"d">>}
KeepOptionStrings(tag) == {b \o k : b \in BeforeKeep, k \in KeepStrings(tag)}
OptionStrings ==
    BeforeKeep \cup KeepOptionStrings("k") \cup KeepOptionStrings("x") \cup FlagStrings
\* k<h> and x<l> together, in the two orders
KeepBothStrings ==
    {<<t[1]>> \o IntToStr(h) \o <<t[2]>> \o IntToStr(l) :
        t \in {<<"k", "x">>, <<"x", "k">>}, h \in 0..MaxKeep, l \in 0..MaxKeep}

\* r<n>, alone and after !
RerollStrings ==
    {<<"r">> \o IntToStr(t) : t \in 0..MaxKeep} \cup {<<"!", "r">>}

\* a or d with another option before or after it, and with all of them
FlagOptionStrings ==
    {<<"a", "!">>, <<"d", "r">>, <<"a", "k", "1">>, <<"d", "x", "1">>,
     <<"!", "d">>, <<"r", "2", "a">>, <<"k", "1", "d">>, <<"x", "1", "a">>,
     <<"!", "r", "k", "1", "x", "1", "a">>}

\* options and modifier written after <count>d<sides>
Tails ==
    (({<<>>} \cup FlagStrings) \X Mods)
    \cup (OptionStrings \X {<<"", 0>>, <<"+", MaxMod>>, <<"-", MaxMod>>})
    \cup (KeepBothStrings \X {<<"", 0>>, <<"-", MaxMod>>})
    \cup (RerollStrings \X {<<"", 0>>})
    \cup (FlagOptionStrings \X {<<"+", 1>>})

GeneratedInputs ==
    {Dice(c, d, t[1], t[2][1], t[2][2]) :
        c \in 0..MaxCount, d \in 0..MaxSides, t \in Tails}

\* both flags, in the two orders
BothFlags == {<<"a", "d">>, <<"d", "a">>}

\* the expressions the specification names, and the limits of count and sides
NamedInputs ==
    {Dice(0, 6, <<>>, "", 0), Dice(2, 0, <<>>, "", 0), Dice(101, 6, <<>>, "", 0),
     Dice(101, 6, <<>>, "+", 5), Dice(2, 1001, <<>>, "", 0), Dice(101, 1, <<"!">>, "", 0),
     Dice(100, 1, <<>>, "", 0), Dice(1, 1000, <<>>, "", 0),
     Dice(2, 6, <<>>, "+", 3), Dice(2, 6, <<>>, "-", 1),
     Dice(4, 6, <<"k", "3">>, "", 0), Dice(2, 6, <<"x", "1">>, "", 0),
     Dice(1, 20, <<"a">>, "", 0), Dice(1, 20, <<"d">>, "+", 2),
     Dice(1, 20, <<>>, "+", 5),
     Dice(1, 20, <<"a", "d">>, "", 0), Dice(1, 20, <<"d", "a">>, "", 0),
     Dice(2, 2, <<"a", "d">>, "+", 1), Dice(2, 2, <<"d", "a">>, "-", 1),
     Dice(4, 6, <<"k", "3", "x", "1">>, "", 0), Dice(4, 6, <<"x", "1", "k", "3">>, "", 0)}

Abc == <<"a", "b", "c">>
Xdy == <<"x", "d", "y">>
CountOmitted == <<"d", "2", "0">>
Bare5 == <<"5">>
Plus5 == <<"+", "5">>
Minus3 == <<"-", "3">>
Upper2d6 == <<"2", "D", "6", "+", "3">>
Spaced5 == <<" ", "5", " ">>
Bare0 == <<"0">>
\* a valid head and more after it
TwoD6Abc == <<"2", "d", "6", "a", "b", "c">>
TwoD6Plus == <<"2", "d", "6", "+">>
TwoD6Plus3Xyz == <<"2", "d", "6", "+", "3", "x", "y", "z">>
Trailing == {TwoD6Abc, TwoD6Plus, TwoD6Plus3Xyz}
TextInputs ==
    {Text(t) : t \in {Abc, Xdy, CountOmitted, Bare5, Plus5, Minus3, Upper2d6, Spaced5, Bare0}
                     \cup Trailing}

DiceInputs == GeneratedInputs \cup NamedInputs

\* a signed integer before an option tag or before another signed integer
MidSignedInputs ==
    {Dice(1, 20, <<"+", "5", "a">>, "", 0), Dice(1, 20, <<"+", "5">>, "+", 3),
     Dice(2, 2, <<"+", "1", "k", "1">>, "", 0), Dice(2, 2, <<"-", "1">>, "+", 1),
     Dice(2, 2, <<"+", "1", "!">>, "", 0), Dice(2, 2, <<"-", "1", "d">>, "-", 1)}
Inputs == DiceInputs \cup TextInputs

StrengthCheck == <<"s", "t", "r", "e", "n", "g", "t", "h", " ", "c", "h", "e", "c", "k">>
DexterityCheck == <<"D", "e", "x", "t", "e", "r", "i", "t", "y", " ", "C", "h", "e", "c", "k">>
WisdomCheck == <<"w", "i", "s", "d", "o", "m", " ", "c", "h", "e", "c", "k">>
FooCheck == <<"f", "o", "o", " ", "c", "h", "e", "c", "k">>
TwoD6Check == <<"2", "d", "6", " ", "c", "h", "e", "c", "k">>
StealthSkill == <<"s", "t", "e", "a", "l", "t", "h", " ", "s", "k", "i", "l", "l">>
AthleticsSkill == <<"a", "t", "h", "l", "e", "t", "i", "c", "s", " ", "s", "k", "i", "l", "l">>
AnimalHandlingSkill == AnimalHandling \o <<" ">> \o SkillWord
SleightOfHandSkill == SleightOfHand \o <<" ">> \o SkillWord
Phrases ==
    {Text(t) : t \in {StrengthCheck, DexterityCheck, WisdomCheck, FooCheck, TwoD6Check,
                      StealthSkill,
                      AthleticsSkill, AnimalHandlingSkill, SleightOfHandSkill}}

NoCharacter == [kind |-> "none", level |-> 1, attributes |-> <<>>, skills |-> <<>>]
Hero ==
    [kind |-> "character", level |-> 5,
     attributes |-> (Strength :> 16) @@ (Dexterity :> 9) @@ (Wisdom :> 10),
     skills |-> (Stealth :> [ability |-> Dexterity, proficient |-> FALSE])
                @@ (Athletics :> [ability |-> Strength, proficient |-> TRUE])
                @@ (AnimalHandling :> [ability |-> Wisdom, proficient |-> TRUE])
                @@ (SleightOfHand :> [ability |-> Dexterity, proficient |-> TRUE,
                                      expertise |-> TRUE])]
Raising == [kind |-> "raising", level |-> 1, attributes |-> <<>>, skills |-> <<>>]
Characters == {NoCharacter, Hero, Raising}

\* (input, character) of the roll_with_context calls
ContextCalls ==
    (Inputs \X {NoCharacter}) \cup (Phrases \X Characters)
    \cup ((NamedInputs \cup TextInputs) \X {Hero})

\* the texts parse_dice_in_text is called with
Words(a, b) == a \o <<" ">> \o b
Texts ==
    {<<>>, Abc, CountOmitted, Upper2d6,
     Expr(101, 6, <<>>, "", 0), Expr(0, 6, <<>>, "", 0), Expr(2, 0, <<>>, "+", 1),
     Expr(1, 2, <<"!">>, "", 0), Expr(2, 3, <<"k", "1">>, "-", 1),
     Words(<<"r", "o", "l", "l">>, Expr(2, 2, <<>>, "+", 1)),
     Words(Expr(1, 2, <<>>, "", 0), Expr(1, 2, <<>>, "", 0)),
     Words(Expr(1, 2, <<>>, "", 0), Expr(1, 3, <<>>, "", 0)),
     Words(Expr(1, 3, <<"a">>, "", 0), Expr(2, 2, <<>>, "", 0)),
     Words(Expr(101, 6, <<>>, "", 0), Expr(1, 2, <<>>, "", 0)),
     Expr(1, 2, <<>>, "", 0) \o <<"x">> \o Expr(1, 3, <<>>, "", 0)}

(***************************************************************************)
(* The state of one call.                                                  *)
(***************************************************************************)
VARIABLES
    api,        \* the method called: roll, roll_advanced, roll_with_context
    input,      \* its expression argument
    written,    \* the numbers the argument is written from
    character,  \* its character argument
    pc,         \* where the call is
    at,         \* in roll_with_context: which of its calls of the engine runs
    expression, \* roll_with_context's local expression (it is reassigned)
    name,       \* roll_with_context's local ability or skill
    arg,        \* the expression handed to roll or roll_advanced
    loc,        \* num_dice, sides, operator, modifier and the option values
    acc,        \* the list roll_simple is building
    roll1,      \* the first of the two rolls of advantage/disadvantage
    roll2,      \* the second of the two
    rolls,      \* rolls (temp_rolls while exploding)
    roll,       \* the die just rolled in the exploding loops
    n,          \* iterations begun of "for _ in range(num_dice)"
    i,          \* index of the reroll loop
    breakdown,  \* roll_advanced's local breakdown
    result,     \* the DiceRoll returned
    outcome,    \* "none", "returned" or "raised"
    draws,      \* the values the PRNG gave during the call, in order
    truncated,  \* more than MaxExplode re-rolls happened: rolls, draws are cut
    text,       \* the argument of parse_dice_in_text
    expressions, \* its list expressions
    results,    \* its list results
    turn,       \* the turn of its loop "for expr in expressions"
    first,      \* the call made before with the same arguments, if any
    other,      \* the call of another thread, suspended: its variables
    manager     \* the attributes of the DiceManager instance

vars == <<api, input, written, character, pc, at, expression, name, arg, loc, acc, roll1, roll2, rolls,
          roll, n, i, breakdown, result, outcome, draws, truncated, text, expressions, results,
          turn, first, other, manager>>

NoLoc ==
    [num_dice |-> 0, sides |-> 0, operator |-> "+", modifier |-> 0,
     options |-> DefaultOptions]
NoResult == [expression |-> <<>>, rolls |-> <<>>, total |-> 0, breakdown |-> <<>>]

\* no call was made before
NoFirst ==
    [made |-> FALSE, result |-> NoResult, outcome |-> "none", draws |-> <<>>,
     results |-> <<>>]

\* DiceManager.__init__ sets no attribute
NoFields == <<>>

\* the variables of a call that is to be made: c is the method, e its
\* argument, a the character, q the list expressions of parse_dice_in_text
Pending(c, e, a, q) ==
    [api |-> c, input |-> e, written |-> Text(e), character |-> a, pc |-> "call",
     at |-> "none", expression |-> <<>>, name |-> <<>>, arg |-> <<>>, loc |-> NoLoc,
     acc |-> <<>>, roll1 |-> <<>>, roll2 |-> <<>>, rolls |-> <<>>, roll |-> 0,
     n |-> 0, i |-> 0, breakdown |-> <<>>, result |-> NoResult, outcome |-> "none", draws |-> <<>>,
     truncated |-> FALSE, text |-> IF c = "parse_dice_in_text" THEN e ELSE <<>>,
     expressions |-> q, results |-> <<>>, turn |-> 0]
\* no call
NoCall == [Pending("none", <<>>, NoCharacter, <<>>) EXCEPT !.pc = "idle"]

\* DiceRoll(expression, rolls, total, breakdown)
DiceRoll(e, r, t, b) == [expression |-> e, rolls |-> r, total |-> t, breakdown |-> b]

Init ==
    /\ api = "none"
    /\ input = <<>>
    /\ written = Text(<<>>)
    /\ character = NoCharacter
    /\ pc = "idle"
    /\ at = "none"
    /\ expression = <<>>
    /\ name = <<>>
    /\ arg = <<>>
    /\ loc = NoLoc
    /\ acc = <<>>
    /\ roll1 = <<>>
    /\ roll2 = <<>>
    /\ rolls = <<>>
    /\ roll = 0
    /\ n = 0
    /\ i = 0
    /\ breakdown = <<>>
    /\ result = NoResult
    /\ outcome = "none"
    /\ draws = <<>>
    /\ truncated = FALSE
    /\ text = <<>>
    /\ expressions = <<>>
    /\ results = <<>>
    /\ turn = 0
    /\ first = NoFirst
    /\ other = NoCall
    /\ manager = NoFields

\* the variables of the call itself, those of parse_dice_in_text and those
\* of the engine's locals
parseVars == <<text, expressions, results, turn>>
callVars == <<api, input, written, character, name, parseVars, first, other, manager>>

\* a PRNG that gives what it likes whatever it was seeded to
Draw_unseeded(a, b) == randint(a, b)

\* random.randint(a, b) of the call: a second call is made with the PRNG
\* seeded to give again what it gave to the first
Draw(a, b) ==
    IF first.made /\ Len(draws) < Len(first.draws)
    THEN {first.draws[Len(draws) + 1]}
    ELSE randint(a, b)
rollVars == <<acc, roll1, roll2, rolls, roll, n, i, breakdown>>

(***************************************************************************)
(* The calls.                                                              *)
(***************************************************************************)
\* dice_manager.roll(e)
Call_roll ==
    /\ pc = "idle"
    /\ \E w \in Inputs : written' = w /\ input' = w.text /\ arg' = w.text
    /\ api' = "roll"
    /\ pc' = "roll"
    /\ UNCHANGED <<character, at, expression, name, loc, rollVars, result, outcome,
                   draws, truncated, parseVars, first, other, manager>>

\* dice_manager.roll_advanced(e)
Call_roll_advanced ==
    /\ pc = "idle"
    /\ \E w \in Inputs \cup MidSignedInputs :
          written' = w /\ input' = w.text /\ arg' = w.text
    /\ api' = "roll_advanced"
    /\ pc' = "adv"
    /\ UNCHANGED <<character, at, expression, name, loc, rollVars, result, outcome,
                   draws, truncated, parseVars, first, other, manager>>

\* roll_with_context(e, c) up to its first call of the engine:
\* an ability check, a skill check or a standard roll; a character method
\* that raises leads to the outer except, which calls roll(expression)
Dispatch(e, c) ==
    LET ability == ability_match(Lower(e))
        skill == skill_match(Lower(e))
        present == c.kind # "none"
    IN  /\ input' = e
        /\ character' = c
        /\ IF present /\ (ability.found \/ skill.found)
           THEN /\ expression' = e
                /\ name' = Lower(IF ability.found THEN ability.group1 ELSE skill.group1)
                /\ pc' = "roll"
                /\ IF c.kind = "raising"
                   THEN at' = "fallback" /\ arg' = e
                   ELSE IF ability.found
                        THEN /\ at' = "check"
                             /\ arg' = DiceExpr(get_ability_modifier(c, Lower(ability.group1)))
                        ELSE /\ at' = "skill"
                             /\ arg' = DiceExpr(get_skill_bonus(c, Lower(skill.group1)))
           ELSE /\ expression' = StandardExpression(e)
                /\ name' = <<>>
                /\ at' = "adv"
                /\ arg' = StandardExpression(e)
                /\ pc' = "adv"

Call_roll_with_context ==
    /\ pc = "idle"
    /\ api' = "roll_with_context"
    /\ \E c \in ContextCalls : written' = c[1] /\ Dispatch(c[1].text, c[2])
    /\ UNCHANGED <<loc, rollVars, result, outcome, draws, truncated, parseVars, first,
                   other, manager>>

\* a call from its first line to its first call of the engine, with fresh
\* locals: of roll, roll_advanced, roll_with_context or, its list
\* expressions sorted, parse_dice_in_text
Begin ==
    /\ CASE api = "roll" ->
              /\ arg' = input /\ pc' = "roll" /\ outcome' = "none"
              /\ UNCHANGED <<input, character, at, expression, name>>
         [] api = "roll_advanced" ->
              /\ arg' = input /\ pc' = "adv" /\ outcome' = "none"
              /\ UNCHANGED <<input, character, at, expression, name>>
         [] api = "roll_with_context" ->
              Dispatch(input, character) /\ outcome' = "none"
         [] api = "parse_dice_in_text" ->
              IF expressions = <<>>
              THEN /\ pc' = "done" /\ outcome' = "returned"
                   /\ UNCHANGED <<input, character, at, expression, name, arg>>
              ELSE Dispatch(expressions[1], NoCharacter) /\ outcome' = "none"
    /\ loc' = NoLoc
    /\ acc' = <<>> /\ roll1' = <<>> /\ roll2' = <<>> /\ rolls' = <<>>
    /\ roll' = 0 /\ n' = 0 /\ i' = 0
    /\ breakdown' = <<>>
    /\ result' = NoResult
    /\ draws' = <<>>
    /\ results' = <<>>
    /\ turn' = 1
    /\ UNCHANGED <<api, written, truncated, text, expressions, manager>>

\* the same method called once more with the same arguments, the PRNG
\* seeded to repeat its draws
Call_again ==
    /\ pc = "done"
    /\ ~first.made
    /\ ~truncated
    /\ Len(draws) <= MaxSeed
    /\ first' = [made |-> TRUE, result |-> result, outcome |-> outcome, draws |-> draws,
                 results |-> results]
    /\ Begin
    /\ UNCHANGED other

\* roll_advanced called with the expression <count>d<sides>, with or without
\* a modifier, that roll was just called with, the PRNG seeded to repeat its
\* draws
Call_roll_advanced_after_roll ==
    /\ pc = "done"
    /\ api = "roll"
    /\ written.kind = "dice" /\ written.options = <<>>
    /\ ~first.made
    /\ Len(draws) <= MaxSeed
    /\ first' = [made |-> TRUE, result |-> result, outcome |-> outcome, draws |-> draws,
                 results |-> results]
    /\ api' = "roll_advanced"
    /\ arg' = input /\ pc' = "adv" /\ outcome' = "none"
    /\ loc' = NoLoc
    /\ acc' = <<>> /\ roll1' = <<>> /\ roll2' = <<>> /\ rolls' = <<>>
    /\ roll' = 0 /\ n' = 0 /\ i' = 0
    /\ breakdown' = <<>>
    /\ result' = NoResult
    /\ draws' = <<>>
    /\ UNCHANGED <<input, written, character, at, expression, name, truncated, parseVars,
                   other, manager>>

\* parse_dice_in_text(t) up to its first call of roll_with_context, or to
\* its return when the text holds no candidate
Call_parse_dice_in_text ==
    /\ pc = "idle"
    /\ api' = "parse_dice_in_text"
    /\ \E t \in Texts :
          /\ written' = Text(t)
          /\ text' = t
          /\ \E q \in SortedByLength(Candidates(t)) :
                /\ expressions' = q
                /\ turn' = 1
                /\ IF q = <<>>
                   THEN /\ pc' = "done"
                        /\ outcome' = "returned"
                        /\ UNCHANGED <<input, character, expression, name, at, arg>>
                   ELSE Dispatch(q[1], NoCharacter) /\ outcome' = outcome
    /\ results' = <<>>
    /\ UNCHANGED <<loc, rollVars, result, draws, truncated, first, other, manager>>

\* "results.append(result)" or "except: pass", and the next turn of
\* "for expr in expressions"; after the last one "return results"
ParseDiceInText_Next ==
    /\ pc \in {"append", "pass"}
    /\ results' = (IF pc = "append" THEN Append(results, result) ELSE results)
    /\ turn' = turn + 1
    /\ IF turn = Len(expressions)
       THEN /\ pc' = "done"
            /\ outcome' = "returned"
            /\ UNCHANGED <<input, character, expression, name, at, arg>>
       ELSE Dispatch(expressions[turn + 1], NoCharacter) /\ outcome' = outcome
    /\ UNCHANGED <<api, written, text, expressions, loc, rollVars, result, draws, truncated,
                   first, other, manager>>

\* the method of DiceManager that called roll or roll_advanced
Caller == IF api = "parse_dice_in_text" THEN "roll_with_context" ELSE api

(***************************************************************************)
(* Leaving roll and roll_advanced.                                         *)
(***************************************************************************)
\* the DiceRoll the caller receives: roll_with_context rewrites the
\* expression of a check from its locals ability or skill and dice_expr
Returned(r) ==
    IF Caller = "roll_with_context" /\ at = "check"
    THEN [r EXCEPT !.expression = CheckLabel(name, arg)]
    ELSE IF Caller = "roll_with_context" /\ at = "skill"
         THEN [r EXCEPT !.expression = SkillLabel(name, arg)]
         ELSE r

\* return DiceRoll(...): to the caller, or to the loop of parse_dice_in_text
Return(r) ==
    /\ result' = Returned(r)
    /\ IF api = "parse_dice_in_text"
       THEN pc' = "append" /\ outcome' = outcome
       ELSE pc' = "done" /\ outcome' = "returned"
    /\ UNCHANGED <<at, arg>>

\* raise ValueError(...): to the handler of roll_with_context, or out of the
\* call; parse_dice_in_text catches what roll_with_context lets out
Raise ==
    LET h == Handler(Caller, at)
    IN  /\ result' = result
        /\ IF h = "propagate"
           THEN /\ IF api = "parse_dice_in_text"
                   THEN pc' = "pass" /\ outcome' = outcome
                   ELSE pc' = "done" /\ outcome' = "raised"
                /\ UNCHANGED <<at, arg>>
           ELSE /\ pc' = "roll"
                /\ at' = h
                /\ arg' = HandlerArg(h, expression)
                /\ outcome' = outcome

\* after the dice are rolled in roll_advanced: the reroll loop, if any
AfterRolls == IF loc.options.reroll_threshold > 0 THEN "reroll" ELSE "keep"

(***************************************************************************)
(* roll                                                                    *)
(***************************************************************************)
\* parse_expression and "Validate input"
Roll_Parse ==
    /\ pc = "roll"
    /\ LET p == parse_expression(arg)
       IN  IF p.ok /\ RollValidate(p.num_dice, p.sides)
           THEN /\ loc' = [NoLoc EXCEPT !.num_dice = p.num_dice, !.sides = p.sides,
                                        !.operator = p.operator, !.modifier = p.modifier]
                /\ acc' = <<>>
                /\ pc' = "roll_draw"
                /\ UNCHANGED <<at, arg, result, outcome>>
           ELSE Raise /\ UNCHANGED <<loc, acc>>
    /\ UNCHANGED <<callVars, expression, roll1, roll2, rolls, roll, n, i, breakdown, draws,
                   truncated>>

\* roll_simple: one die of the list; the last one hands the list to the caller
RollSimple ==
    /\ pc \in {"roll_draw", "adv_roll1", "adv_roll2", "adv_normal"}
    /\ \E v \in Draw(1, loc.sides) :
          LET a == Append(acc, v)
          IN  /\ draws' = Append(draws, v)
              /\ IF Len(a) < loc.num_dice
                 THEN acc' = a /\ UNCHANGED <<pc, roll1, roll2, rolls, i, breakdown>>
                 ELSE /\ acc' = <<>>
                      /\ breakdown' = (IF pc = "adv_normal"
                                       THEN RollsBreakdown(FALSE, a) ELSE breakdown)
                      /\ roll1' = (IF pc = "adv_roll1" THEN a ELSE roll1)
                      /\ roll2' = (IF pc = "adv_roll2" THEN a ELSE roll2)
                      /\ rolls' = (IF pc \in {"roll_draw", "adv_normal"} THEN a ELSE rolls)
                      /\ i' = 0
                      /\ pc' = CASE pc = "roll_draw" -> "roll_total"
                                 [] pc = "adv_roll1" -> "adv_roll2"
                                 [] pc = "adv_roll2" -> "adv_select"
                                 [] pc = "adv_normal" -> AfterRolls
    /\ UNCHANGED <<callVars, at, expression, arg, loc, roll, n, result, outcome, truncated>>

\* dice_sum, "Apply modifier" and the return
Roll_Total ==
    /\ pc = "roll_total"
    /\ Return(DiceRoll(arg, rolls, ApplyModifier(Sum(rolls), loc.operator, loc.modifier),
                       RollBreakdown(Sum(rolls), loc.operator, loc.modifier)))
    /\ UNCHANGED <<callVars, expression, loc, rollVars, draws, truncated>>

(***************************************************************************)
(* roll_advanced                                                           *)
(***************************************************************************)
\* a total with the modifier added once for each die
AdvTotal_per_die(kept, modifier) == Sum(kept) + Len(kept) * modifier

\* a total that leaves the modifier out
AdvTotal_no_modifier(kept, modifier) == Sum(kept)

\* "Calculate total"
AdvTotal(kept, modifier) == Sum(kept) + modifier

\* exploding looked at before the flags
FirstStep_exploding_first(options) ==
    IF options.exploding THEN "explode_for"
    ELSE IF options.advantage \/ options.disadvantage THEN "adv_roll1" ELSE "adv_normal"

\* "if advantage or disadvantage: ... else: if exploding: ... else:"
FirstStep(options) ==
    IF options.advantage \/ options.disadvantage THEN "adv_roll1"
    ELSE IF options.exploding THEN "explode_for" ELSE "adv_normal"

\* the match, "Validate input", "Extract modifier", "Parse special operators"
RollAdvanced_Parse ==
    /\ pc = "adv"
    /\ LET p == AdvParse(arg)
       IN  IF p.ok /\ AdvValidate(p.num_dice, p.sides)
           THEN /\ loc' = [NoLoc EXCEPT !.num_dice = p.num_dice, !.sides = p.sides,
                                        !.modifier = p.modifier, !.options = p.options]
                /\ acc' = <<>>
                /\ rolls' = <<>>
                /\ n' = 0
                /\ pc' = FirstStep(p.options)
                /\ UNCHANGED <<at, arg, result, outcome>>
           ELSE Raise /\ UNCHANGED <<loc, acc, rolls, n>>
    /\ UNCHANGED <<callVars, expression, roll1, roll2, roll, i, breakdown, draws, truncated>>

\* "Handle advantage/disadvantage" once both sets are rolled, "Calculate total"
RollAdvanced_Select ==
    /\ pc = "adv_select"
    /\ LET kept == AdvSelect(loc.options.advantage, roll1, roll2)
       IN  /\ rolls' = kept
           /\ Return(DiceRoll(arg, kept, AdvTotal(kept, loc.modifier),
                              SelectBreakdown(loc.options.advantage, roll1, roll2)
                              \o ModifierTerm(loc.modifier)))
    /\ UNCHANGED <<callVars, expression, loc, acc, roll1, roll2, roll, n, i, breakdown, draws,
                   truncated>>

\* a die that never explodes
Explodes_never(r, sides) == FALSE

\* "while roll == sides"
Explodes(r, sides) == r = sides

\* "for _ in range(num_dice)": the first roll of the next die
RollAdvanced_ExplodeFor ==
    /\ pc = "explode_for"
    /\ \E v \in Draw(1, loc.sides) :
          /\ roll' = v
          /\ rolls' = Append(rolls, v)
          /\ draws' = Append(draws, v)
    /\ n' = n + 1
    /\ pc' = "explode_while"
    /\ UNCHANGED <<callVars, at, expression, arg, loc, acc, roll1, roll2, i, breakdown,
                   result, outcome, truncated>>

\* the test of "while roll == sides": into the body, or on to the next die
RollAdvanced_ExplodeWhile ==
    /\ pc = "explode_while"
    /\ pc' = IF Explodes(roll, loc.sides) THEN "explode_again"
             ELSE IF n < loc.num_dice THEN "explode_for" ELSE AfterRolls
    /\ breakdown' = IF ~Explodes(roll, loc.sides) /\ n >= loc.num_dice
                    THEN RollsBreakdown(TRUE, rolls) ELSE breakdown
    /\ UNCHANGED <<callVars, at, expression, arg, loc, acc, roll1, roll2, rolls, roll, n, i,
                   result, outcome, draws, truncated>>

\* the body of "while roll == sides": one more roll of the same die.  Of the
\* re-rolls of a call the first MaxExplode are recorded in rolls and draws
RollAdvanced_ExplodeAgain ==
    /\ pc = "explode_again"
    /\ \E v \in Draw(1, loc.sides) :
          /\ roll' = v
          /\ IF Len(rolls) - n < MaxExplode
             THEN /\ rolls' = Append(rolls, v)
                  /\ draws' = Append(draws, v)
                  /\ truncated' = truncated
             ELSE /\ truncated' = TRUE
                  /\ UNCHANGED <<rolls, draws>>
    /\ pc' = "explode_while"
    /\ UNCHANGED <<callVars, at, expression, arg, loc, acc, roll1, roll2, n, i, breakdown,
                   result, outcome>>

\* a reroll of the dice strictly below the threshold
Rerolled_below(r, reroll_threshold) == r < reroll_threshold

\* "if roll <= reroll_threshold"
Rerolled(r, reroll_threshold) == r <= reroll_threshold

\* "Handle rerolls": one iteration of "for i, roll in enumerate(rolls)"
RollAdvanced_Reroll ==
    /\ pc = "reroll"
    /\ i < Len(rolls)
    /\ IF Rerolled(rolls[i + 1], loc.options.reroll_threshold)
       THEN \E v \in Draw(1, loc.sides) :
               /\ rolls' = [rolls EXCEPT ![i + 1] = v]
               /\ draws' = Append(draws, v)
       ELSE UNCHANGED <<rolls, draws>>
    /\ i' = i + 1
    /\ pc' = IF i + 1 < Len(rolls) THEN "reroll" ELSE "keep"
    /\ breakdown' = IF i + 1 < Len(rolls) THEN breakdown
                    ELSE breakdown \o RerollSuffix(loc.options.reroll_threshold)
    /\ UNCHANGED <<callVars, at, expression, arg, loc, acc, roll1, roll2, roll, n,
                   result, outcome, truncated>>

\* "Handle keeping highest/lowest", "Calculate total" and the return
RollAdvanced_Keep ==
    /\ pc = "keep"
    /\ \E kept \in {Keep(rolls, loc.options.keep_highest, loc.options.keep_lowest)} :
           /\ rolls' = kept
           /\ Return(DiceRoll(arg, kept, AdvTotal(kept, loc.modifier),
                              KeepBreakdown(breakdown, rolls, loc.options.keep_highest,
                                            loc.options.keep_lowest)
                              \o ModifierTerm(loc.modifier)))
    /\ UNCHANGED <<callVars, expression, loc, acc, roll1, roll2, roll, n, i, breakdown, draws,
                   truncated>>

Next ==
    \/ Call_roll
    \/ Call_roll_advanced
    \/ Call_roll_with_context
    \/ Call_parse_dice_in_text
    \/ ParseDiceInText_Next
    \/ Roll_Parse
    \/ RollSimple
    \/ Roll_Total
    \/ RollAdvanced_Parse
    \/ RollAdvanced_Select
    \/ RollAdvanced_ExplodeFor
    \/ RollAdvanced_ExplodeWhile
    \/ RollAdvanced_ExplodeAgain
    \/ RollAdvanced_Reroll
    \/ RollAdvanced_Keep

Spec == Init /\ [][Next]_vars

\* once the expression is parsed the call runs on: each step of rolling,
\* selecting, keeping and returning is taken when it is the next one
Fairness ==
    /\ WF_vars(RollSimple) /\ WF_vars(Roll_Total)
    /\ WF_vars(RollAdvanced_Select)
    /\ WF_vars(RollAdvanced_ExplodeFor) /\ WF_vars(RollAdvanced_ExplodeWhile)
    /\ WF_vars(RollAdvanced_ExplodeAgain) /\ WF_vars(RollAdvanced_Reroll)
    /\ WF_vars(RollAdvanced_Keep)
FairSpec == Spec /\ Fairness

\* the calls, and each of them made a second time with the PRNG seeded
SeedNext == Next \/ Call_again
SeedSpec == Init /\ [][SeedNext]_vars

\* the calls, and roll_advanced after roll on the same expression and draws
AgreeNext == Next \/ Call_roll_advanced_after_roll
AgreeSpec == Init /\ [][AgreeNext]_vars

(***************************************************************************)
(* Two calls on one DiceManager from two threads: one runs, the other is   *)
(* suspended, and they change places between any two steps.  They share    *)
(* the manager and the PRNG; the locals of a call are its own.             *)
(***************************************************************************)
\* the variables of the running call
Frame ==
    [api |-> api, input |-> input, written |-> written, character |-> character,
     pc |-> pc, at |-> at, expression |-> expression, name |-> name, arg |-> arg,
     loc |-> loc, acc |-> acc, roll1 |-> roll1, roll2 |-> roll2, rolls |-> rolls,
     roll |-> roll, n |-> n, i |-> i, breakdown |-> breakdown, result |-> result, outcome |-> outcome,
     draws |-> draws, truncated |-> truncated, text |-> text,
     expressions |-> expressions, results |-> results, turn |-> turn]

\* the call f runs on, its list rolls being r
ResumeAll(f, r) ==
    /\ api' = f.api /\ input' = f.input /\ written' = f.written
    /\ character' = f.character /\ pc' = f.pc /\ at' = f.at
    /\ expression' = f.expression /\ name' = f.name /\ arg' = f.arg
    /\ loc' = f.loc /\ acc' = f.acc /\ roll1' = f.roll1 /\ roll2' = f.roll2
    /\ rolls' = r
    /\ roll' = f.roll /\ n' = f.n /\ i' = f.i /\ breakdown' = f.breakdown
    /\ result' = f.result
    /\ outcome' = f.outcome /\ draws' = f.draws /\ truncated' = f.truncated
    /\ text' = f.text /\ expressions' = f.expressions /\ results' = f.results
    /\ turn' = f.turn

\* a list rolls that is one attribute of the manager, shared by the calls
Resume_shared_rolls(f) == ResumeAll(f, rolls)

\* the call f runs on with its own locals
Resume(f) == ResumeAll(f, f.rolls)

\* the calls two threads make
ConcCalls ==
    {Pending("roll", Expr(2, 2, <<>>, "-", 1), NoCharacter, <<>>),
     Pending("roll", Abc, NoCharacter, <<>>),
     Pending("roll_advanced", Expr(1, 2, <<"!", "r">>, "", 0), NoCharacter, <<>>),
     Pending("roll_advanced", Expr(1, 3, <<"a">>, "", 0), NoCharacter, <<>>),
     Pending("roll_with_context", StrengthCheck, Hero, <<>>)}
    \cup {Pending("parse_dice_in_text", t, NoCharacter, q) :
             t \in {Words(Expr(1, 2, <<>>, "", 0), Expr(1, 3, <<>>, "", 0))},
             q \in SortedByLength(Candidates(Words(Expr(1, 2, <<>>, "", 0),
                                                  Expr(1, 3, <<>>, "", 0))))}

\* two threads are about to call
Conc_Call ==
    /\ pc = "idle"
    /\ \E c1, c2 \in ConcCalls : Resume(c1) /\ other' = c2
    /\ UNCHANGED <<first, manager>>

\* the running thread makes its call
Conc_Begin ==
    /\ pc = "call"
    /\ Begin
    /\ UNCHANGED <<first, other>>

\* the threads change places
Switch ==
    /\ pc # "idle"
    /\ other.pc # "idle"
    /\ ~first.made
    /\ Resume(other)
    /\ other' = Frame
    /\ UNCHANGED <<first, manager>>

ConcNext ==
    \/ Conc_Call
    \/ Conc_Begin
    \/ Switch
    \/ Call_again
    \/ ParseDiceInText_Next
    \/ Roll_Parse
    \/ RollSimple
    \/ Roll_Total
    \/ RollAdvanced_Parse
    \/ RollAdvanced_Select
    \/ RollAdvanced_ExplodeFor
    \/ RollAdvanced_ExplodeWhile
    \/ RollAdvanced_ExplodeAgain
    \/ RollAdvanced_Reroll
    \/ RollAdvanced_Keep

ConcSpec == Init /\ [][ConcNext]_vars

(***************************************************************************)
(* What the claims say of an input, read from the numbers it is written    *)
(* from.                                                                   *)
(***************************************************************************)
Finished == pc = "done"
Min(a, b) == IF a <= b THEN a ELSE b
Max(a, b) == IF a >= b THEN a ELSE b
InRange(r, lo, hi) == \A k \in DOMAIN r : lo <= r[k] /\ r[k] <= hi

IsDice == written.kind = "dice"
\* count or sides out of range
OutOfRange ==
    written.count < 1 \/ written.count > 100 \/ written.sides < 1 \/ written.sides > 1000
\* the signed modifier
WrittenModifier == IF written.sign = "-" THEN -written.m ELSE written.m
\* <count>d<sides> and nothing more; <count>d<sides>[+-]<m>
IsPlain == IsDice /\ written.options = <<>> /\ written.sign = ""
IsSimple == IsDice /\ written.options = <<>> /\ written.sign # ""
\* no <count>d<sides> head, with or without the count
NoHead == written.kind = "text" /\ input \in {Abc, Xdy, Bare5, Plus5, Minus3, Spaced5}

(***************************************************************************)
(* C1.  For every count in [1,100] and sides in [1,1000],                  *)
(* roll("<count>d<sides>") returns a DiceRoll whose rolls has exactly      *)
(* count elements, each in [1, sides], and whose total is their sum.       *)
(***************************************************************************)
C1_RollCountRangeTotal ==
    (api = "roll" /\ Finished /\ IsPlain /\ ~OutOfRange) =>
        /\ outcome = "returned"
        /\ Len(result.rolls) = written.count
        /\ InRange(result.rolls, 1, written.sides)
        /\ result.total = Sum(result.rolls)

C1_Witness ==
    /\ api = "roll" /\ Finished /\ IsPlain
    /\ written.count = 100
    /\ Len(result.rolls) = 100

(***************************************************************************)
(* C2.  For a valid simple expression NdS+M (NdS-M), roll returns          *)
(* total = sum(rolls) + M (sum(rolls) - M), so the total lies in           *)
(* [N+M, N*S+M] ([N-M, N*S-M]); roll("2d6+3") has its total in [5,15].     *)
(***************************************************************************)
C2_RollModifierTotal ==
    (api = "roll" /\ Finished /\ IsSimple /\ ~OutOfRange) =>
        /\ outcome = "returned"
        /\ result.total = Sum(result.rolls) + WrittenModifier
        /\ written.count + WrittenModifier <= result.total
        /\ result.total <= written.count * written.sides + WrittenModifier
        /\ input = <<"2", "d", "6", "+", "3">> =>
              5 <= result.total /\ result.total <= 15

C2_Witness ==
    /\ api = "roll" /\ Finished
    /\ input = <<"2", "d", "6", "-", "1">>
    /\ result.rolls = <<6, 6>>
    /\ result.total = 11

(***************************************************************************)
(* C3.  roll and roll_advanced raise ValueError on an expression without a *)
(* valid head (<count>d<sides> for roll, [<count>]d<sides> for             *)
(* roll_advanced) or with count < 1, count > 100, sides < 1 or             *)
(* sides > 1000, and whenever they raise, the PRNG has given no value.     *)
(***************************************************************************)
C3_InvalidRaisesBeforeRolling ==
    api \in {"roll", "roll_advanced"} =>
        /\ (NoHead \/ (IsDice /\ OutOfRange) \/ (api = "roll" /\ input = CountOmitted)) =>
              draws = <<>> /\ (Finished => outcome = "raised")
        /\ outcome = "raised" => draws = <<>>

C3_Witness ==
    /\ api = "roll_advanced" /\ Finished
    /\ IsDice /\ written.sides = 1001
    /\ outcome = "raised"
    /\ draws = <<>>

(***************************************************************************)
(* C4.  roll_with_context never raises: whatever the input and the         *)
(* character, also one whose get_ability_modifier and get_skill_bonus      *)
(* raise, a call that ends has returned a DiceRoll.                        *)
(***************************************************************************)
C4_ContextNeverRaises ==
    (api = "roll_with_context" /\ Finished) => outcome = "returned"

C4_Witness ==
    /\ api = "roll_with_context" /\ Finished
    /\ character = Raising
    /\ at = "last"
    /\ outcome = "returned"

(***************************************************************************)
(* C5.  roll_advanced("1d1!") terminates: the exploding loop of a die of   *)
(* one side stops after a bounded number of re-rolls, also when the        *)
(* expression comes through roll_with_context.                             *)
(***************************************************************************)
C5_ExplodingOneSidedTerminates ==
    (pc = "explode_again" /\ loc.sides = 1) ~> Finished

(***************************************************************************)
(* What the keep options say, read from the text of the options: the tag,  *)
(* the digits after it, and the working set the keep step receives.        *)
(***************************************************************************)
\* how many elements of s equal v
CountOf(s, v) == Cardinality({j \in DOMAIN s : s[j] = v})
HasOption(tag) == IsDice /\ tag \in Range(written.options)
NoFlag == ~HasOption("a") /\ ~HasOption("d")
\* the digits written after the tag, <<>> when the number is omitted
DigitsAfter(tag) ==
    LET p == CHOOSE q \in DOMAIN written.options : written.options[q] = tag
    IN  SubSeq(written.options, p + 1, DigitsEnd(written.options, p + 1) - 1)
NumberOmitted(tag) == DigitsAfter(tag) = <<>>
NumberAfter(tag) == StrToInt(DigitsAfter(tag))
\* the keep count in force: the written one, the dice count when it is 0 or omitted
KeepInForce(tag) ==
    IF NumberOmitted(tag) \/ NumberAfter(tag) = 0 THEN written.count ELSE NumberAfter(tag)
\* kept is part of the working set, and no discarded value is above a kept one
HighestOf(kept, working) ==
    /\ \A v \in Range(kept) : CountOf(kept, v) <= CountOf(working, v)
    /\ \A v \in Range(kept) : \A w \in Range(working) :
          CountOf(kept, w) < CountOf(working, w) => v >= w
\* kept is part of the working set, and no discarded value is below a kept one
LowestOf(kept, working) ==
    /\ \A v \in Range(kept) : CountOf(kept, v) <= CountOf(working, v)
    /\ \A v \in Range(kept) : \A w \in Range(working) :
          CountOf(kept, w) < CountOf(working, w) => v <= w
\* the keep step of an expression with k and neither a, d nor x
KeepHighestStep == pc = "keep" /\ ~truncated /\ HasOption("k") /\ ~HasOption("x") /\ NoFlag
\* the keep step of an expression with x and neither a, d nor k
KeepLowestStep == pc = "keep" /\ ~truncated /\ HasOption("x") /\ ~HasOption("k") /\ NoFlag

(***************************************************************************)
(* C6.  For roll_advanced("NdSk<n>") without a or d the returned rolls     *)
(* are, as a multiset, the min(n', len) highest values of the working set  *)
(* of len dice, where n' is n, or N when n is 0 or omitted: exactly        *)
(* min(n', len) values are returned and none is below a discarded one.     *)
(***************************************************************************)
C6_KeepHighestOfWorkingSet ==
    [][KeepHighestStep =>
          /\ Len(result'.rolls) = Min(KeepInForce("k"), Len(rolls))
          /\ HighestOf(result'.rolls, rolls)]_vars

C6_Witness ==
    /\ api = "roll_advanced" /\ Finished
    /\ input = <<"4", "d", "6", "k", "3">>
    /\ draws = <<1, 6, 3, 5>>
    /\ result.rolls = <<6, 5, 3>>

\* C6 as stated: the min(n, len) highest with the written n, and nothing
\* discarded when n is omitted
C6_AsStated ==
    [][KeepHighestStep =>
          IF NumberOmitted("k")
          THEN Len(result'.rolls) = Len(rolls)
          ELSE /\ Len(result'.rolls) = Min(NumberAfter("k"), Len(rolls))
               /\ HighestOf(result'.rolls, rolls)]_vars

(***************************************************************************)
(* C7.  For roll_advanced("NdSx<n>") without a, d or k the returned rolls  *)
(* are the min(n', len) lowest values of the working set of len dice,      *)
(* where n' is n, or N when n is 0 or omitted, and total is their sum plus *)
(* the modifier; "2d6x1" with raw rolls [4,6] returns rolls [4], total 4.  *)
(***************************************************************************)
C7_KeepLowestOfWorkingSet ==
    [][KeepLowestStep =>
          /\ Len(result'.rolls) = Min(KeepInForce("x"), Len(rolls))
          /\ LowestOf(result'.rolls, rolls)
          /\ result'.total = Sum(result'.rolls) + WrittenModifier
          /\ (input = <<"2", "d", "6", "x", "1">> /\ rolls = <<4, 6>>) =>
                result'.rolls = <<4>> /\ result'.total = 4]_vars

C7_Witness ==
    /\ api = "roll_advanced" /\ Finished
    /\ input = <<"2", "d", "6", "x", "1">>
    /\ draws = <<4, 6>>
    /\ result.rolls = <<4>>
    /\ result.total = 4

\* C7 as stated: the min(n, N) lowest with the written n and the dice count N
C7_AsStated ==
    [][(KeepLowestStep /\ ~NumberOmitted("x")) =>
          /\ Len(result'.rolls) = Min(NumberAfter("x"), written.count)
          /\ LowestOf(result'.rolls, rolls)
          /\ result'.total = Sum(result'.rolls) + WrittenModifier]_vars

(***************************************************************************)
(* C8.  With the flag a (with the flag d alone) roll_advanced draws        *)
(* exactly two full rolls of count dice and returns as rolls one of the    *)
(* two sets, of sum the maximum (minimum) of the two sums; total is that   *)
(* sum plus the modifier, so never below (above) what either roll gives.   *)
(***************************************************************************)
FirstRoll == SubSeq(draws, 1, written.count)
SecondRoll == SubSeq(draws, written.count + 1, 2 * written.count)

C8_AdvantageKeepsBetterRoll ==
    (api = "roll_advanced" /\ Finished /\ IsDice /\ ~OutOfRange
        /\ written.options \in FlagStrings) =>
        /\ outcome = "returned"
        /\ Len(draws) = 2 * written.count
        /\ InRange(draws, 1, written.sides)
        /\ result.rolls \in {FirstRoll, SecondRoll}
        /\ IF written.options = <<"a">>
           THEN /\ Sum(result.rolls) = Max(Sum(FirstRoll), Sum(SecondRoll))
                /\ result.total >= Sum(FirstRoll) + WrittenModifier
                /\ result.total >= Sum(SecondRoll) + WrittenModifier
           ELSE /\ Sum(result.rolls) = Min(Sum(FirstRoll), Sum(SecondRoll))
                /\ result.total <= Sum(FirstRoll) + WrittenModifier
                /\ result.total <= Sum(SecondRoll) + WrittenModifier
        /\ result.total = Sum(result.rolls) + WrittenModifier

C8_Witness ==
    /\ api = "roll_advanced" /\ Finished
    /\ input = <<"2", "d", "3", "d", "-", "1">>
    /\ draws = <<3, 2, 1, 2>>
    /\ result.rolls = <<1, 2>>
    /\ result.total = 2

(***************************************************************************)
(* C9.  Without a character, an input that parses under neither grammar or *)
(* fails the validation of count and sides, and that is not a bare signed  *)
(* or unsigned integer, makes roll_with_context return a bare d20 roll:    *)
(* one value in [1,20], total that value, expression "1d20".               *)
(***************************************************************************)
\* neither grammar takes the input, or count or sides is out of range
Unparsable ==
    \/ IsDice /\ OutOfRange
    \/ written.kind = "text" /\ input \in {Abc, Xdy, Spaced5, Bare5, Plus5, Minus3}
BareD20 ==
    /\ outcome = "returned"
    /\ Len(draws) = 1
    /\ Len(result.rolls) = 1
    /\ result.rolls[1] \in 1..20
    /\ result.total = result.rolls[1]
    /\ result.expression = <<"1", "d", "2", "0">>

C9_UnparsableRollsBareD20 ==
    (api = "roll_with_context" /\ Finished /\ character = NoCharacter
        /\ Unparsable /\ input \notin {Bare5, Plus5, Minus3}) => BareD20

C9_Witness ==
    /\ api = "roll_with_context" /\ Finished /\ character = NoCharacter
    /\ input = <<"1", "0", "1", "d", "6", "+", "5">>
    /\ at = "last"
    /\ result.rolls = <<20>>
    /\ result.total = 20

\* C9 as stated: every input that neither grammar takes
C9_AsStated ==
    (api = "roll_with_context" /\ Finished /\ character = NoCharacter /\ Unparsable)
        => BareD20

(***************************************************************************)
(* C10.  For "<ability> check" with a character, roll_with_context draws   *)
(* exactly one d20 and returns total = die + get_ability_modifier(ability) *)
(* for a positive, a zero and a negative modifier, with the expression     *)
(* "<ABILITY> check (1d20<sign><modifier>)".                               *)
(***************************************************************************)
AbilityCheckResult(ability, modifier, label) ==
    /\ outcome = "returned"
    /\ Len(draws) = 1
    /\ draws[1] \in 1..20
    /\ result.rolls = draws
    /\ get_ability_modifier(character, ability) = modifier
    /\ result.total = draws[1] + modifier
    /\ result.expression = label

C10_AbilityCheckAddsModifier ==
    (api = "roll_with_context" /\ Finished /\ character = Hero) =>
        /\ input = StrengthCheck =>
              AbilityCheckResult(Strength, 3,
                  <<"S", "T", "R", "E", "N", "G", "T", "H", " ", "c", "h", "e", "c", "k",
                    " ", "(", "1", "d", "2", "0", "+", "3", ")">>)
        /\ input = DexterityCheck =>
              AbilityCheckResult(Dexterity, -1,
                  <<"D", "E", "X", "T", "E", "R", "I", "T", "Y", " ", "c", "h", "e", "c", "k",
                    " ", "(", "1", "d", "2", "0", "-", "1", ")">>)
        /\ input = WisdomCheck =>
              AbilityCheckResult(Wisdom, 0,
                  <<"W", "I", "S", "D", "O", "M", " ", "c", "h", "e", "c", "k",
                    " ", "(", "1", "d", "2", "0", "+", "0", ")">>)

C10_Witness ==
    /\ api = "roll_with_context" /\ Finished /\ character = Hero
    /\ input = DexterityCheck
    /\ draws = <<1>>
    /\ result.total = 0

(***************************************************************************)
(* C11.  For "<name> skill" with a character, where <name> is one word or  *)
(* more (stealth, athletics, animal handling, sleight of hand),            *)
(* roll_with_context draws one d20 and returns                             *)
(* total = die + get_skill_bonus(name).                                    *)
(***************************************************************************)
SkillCheckResult(skill, bonus) ==
    /\ outcome = "returned"
    /\ Len(draws) = 1
    /\ draws[1] \in 1..20
    /\ result.rolls = draws
    /\ get_skill_bonus(character, skill) = bonus
    /\ result.total = draws[1] + bonus

C11_SkillCheckAddsBonus ==
    (api = "roll_with_context" /\ Finished /\ character = Hero) =>
        /\ input = StealthSkill => SkillCheckResult(Stealth, -1)
        /\ input = AthleticsSkill => SkillCheckResult(Athletics, 5)
        /\ input = AnimalHandlingSkill => SkillCheckResult(AnimalHandling, 2)
        /\ input = SleightOfHandSkill => SkillCheckResult(SleightOfHand, 3)

(***************************************************************************)
(* C12.  For an input without the letter d that is a bare signed or        *)
(* unsigned integer m ("5", "+5", "-3", "0") roll_with_context draws       *)
(* exactly one d20 and returns total = die + m; for any other input        *)
(* without a d that no check or skill rule takes it rolls a plain 1d20,    *)
(* total = die.                                                            *)
(***************************************************************************)
\* the input is one of the phrases and a character is given
RuleTakesInput ==
    /\ character.kind # "none"
    /\ input \in {StrengthCheck, DexterityCheck, WisdomCheck, FooCheck, StealthSkill,
                  AthleticsSkill, AnimalHandlingSkill, SleightOfHandSkill}
\* the integer the input writes, 0 when it writes none
WrittenInteger ==
    CASE input \in {Bare5, Plus5} -> 5
      [] input = Minus3 -> -3
      [] OTHER -> 0

C12_BareIntegerIsModifier ==
    (api = "roll_with_context" /\ Finished /\ "d" \notin Range(input) /\ ~RuleTakesInput) =>
        /\ outcome = "returned"
        /\ Len(draws) = 1
        /\ draws[1] \in 1..20
        /\ result.rolls = draws
        /\ result.total = draws[1] + WrittenInteger

C12_Witness ==
    /\ api = "roll_with_context" /\ Finished
    /\ input = Minus3
    /\ draws = <<2>>
    /\ result.total = -1

(***************************************************************************)
(* C13.  parse_dice_in_text returns exactly one DiceRoll for each distinct *)
(* candidate substring of the text that parses and passes validation, and  *)
(* none for a candidate that does not (a text that is only "101d6" gives   *)
(* an empty list); a substring that occurs several times is rolled once.   *)
(***************************************************************************)
\* the candidate parses and passes validation under one of the two grammars
Parses(c) ==
    \/ AdvParse(c).ok /\ AdvValidate(AdvParse(c).num_dice, AdvParse(c).sides)
    \/ parse_expression(c).ok
       /\ RollValidate(parse_expression(c).num_dice, parse_expression(c).sides)

C13_OneRollPerParsedCandidate ==
    (api = "parse_dice_in_text" /\ Finished) =>
        LET valid == {c \in Candidates(text) : Parses(c)}
        IN  /\ outcome = "returned"
            /\ Len(results) = Cardinality(valid)
            /\ \A c \in valid : \E k \in DOMAIN results : results[k].expression = c
            /\ text = Expr(101, 6, <<>>, "", 0) => results = <<>>

C15_InterleavedAsAlone ==
    /\ manager = NoFields
    /\ (Finished /\ first.made /\ other.pc # "idle") =>
          /\ outcome = first.outcome
          /\ draws = first.draws
          /\ result = first.result
          /\ results = first.results

C15_Witness ==
    /\ Finished /\ first.made
    /\ api = "roll_advanced" /\ outcome = "returned" /\ Len(draws) = 3
    /\ other.api = "parse_dice_in_text" /\ other.pc = "done" /\ Len(other.results) = 2
    /\ result = first.result

(***************************************************************************)
(* C16.  The dice count is mandatory in the simple grammar and optional in *)
(* the advanced one: roll("d20") raises ValueError, roll_advanced("d20")   *)
(* and roll_with_context("d20") roll exactly one die of 20 sides.          *)
(***************************************************************************)
C16_CountOptionalOnlyInAdvanced ==
    (Finished /\ input = CountOmitted) =>
        /\ api = "roll" => outcome = "raised" /\ draws = <<>>
        /\ api \in {"roll_advanced", "roll_with_context"} =>
              /\ outcome = "returned"
              /\ loc.num_dice = 1 /\ loc.sides = 20
              /\ Len(draws) = 1 /\ draws[1] \in 1..20
              /\ result.rolls = draws
              /\ result.total = draws[1]

C16_Witness ==
    /\ Finished /\ input = CountOmitted
    /\ api = "roll_advanced"
    /\ result.rolls = <<20>>
    /\ result.total = 20

(***************************************************************************)
(* C17.  The breakdown of roll is "<dice_sum> <op> <modifier>" when the    *)
(* modifier is not 0 and "<dice_sum>" when it is 0 or absent; roll of      *)
(* "1d20+5" with the die at 15 has total 20 and breakdown "15 + 5".  The   *)
(* breakdown of roll_advanced ends with the modifier term " + m" or        *)
(* " - m" if and only if the modifier is not 0.                            *)
(***************************************************************************)
\* b ends with t
EndsWith(b, t) ==
    Len(b) >= Len(t) /\ SubSeq(b, Len(b) - Len(t) + 1, Len(b)) = t
\* b ends with a space, a sign, a space and a number
HasModifierTerm(b) ==
    \E p \in DOMAIN b :
        /\ p + 3 <= Len(b)
        /\ b[p] = " " /\ IsSign(b[p + 1]) /\ b[p + 2] = " "
        /\ DigitsEnd(b, p + 3) = Len(b) + 1
\* the modifier term as the input writes it
WrittenTerm == <<" ", written.sign, " ">> \o IntToStr(written.m)

C17_BreakdownShowsNonZeroModifier ==
    /\ (api = "roll" /\ Finished /\ outcome = "returned" /\ (IsPlain \/ IsSimple)) =>
          /\ result.breakdown =
                IntToStr(Sum(result.rolls))
                \o (IF WrittenModifier # 0 THEN WrittenTerm ELSE <<>>)
          /\ (input = Expr(1, 20, <<>>, "+", 5) /\ result.rolls = <<15>>) =>
                /\ result.total = 20
                /\ result.breakdown = <<"1", "5", " ", "+", " ", "5">>
    /\ (api = "roll_advanced" /\ Finished /\ outcome = "returned" /\ IsDice) =>
          IF WrittenModifier # 0
          THEN EndsWith(result.breakdown, WrittenTerm)
          ELSE ~HasModifierTerm(result.breakdown)

C17_Witness ==
    /\ api = "roll" /\ Finished
    /\ input = Expr(1, 20, <<>>, "+", 5)
    /\ result.rolls = <<15>>
    /\ result.total = 20
    /\ result.breakdown = <<"1", "5", " ", "+", " ", "5">>

(***************************************************************************)
(* C18.  When both flags a and d are written, in either order ("1d20ad",   *)
(* "1d20da"), advantage takes precedence: of the two sets rolled the one   *)
(* with the higher sum is returned and the breakdown is the advantage one. *)
(***************************************************************************)
C18_AdvantageBeforeDisadvantage ==
    (api = "roll_advanced" /\ Finished /\ IsDice /\ ~OutOfRange
        /\ written.options \in BothFlags) =>
        /\ outcome = "returned"
        /\ Len(draws) = 2 * written.count
        /\ result.rolls \in {FirstRoll, SecondRoll}
        /\ Sum(result.rolls) = Max(Sum(FirstRoll), Sum(SecondRoll))
        /\ result.total = Sum(result.rolls) + WrittenModifier
        /\ result.breakdown =
              <<"A", "d", "v", "a", "n", "t", "a", "g", "e", ":", " ">>
              \o IntToStr(Sum(FirstRoll)) \o <<" ", "v", "s", " ">>
              \o IntToStr(Sum(SecondRoll))
              \o (IF WrittenModifier # 0 THEN WrittenTerm ELSE <<>>)

C18_Witness ==
    /\ api = "roll_advanced" /\ Finished
    /\ input = <<"1", "d", "2", "0", "d", "a">>
    /\ draws = <<7, 12>>
    /\ result.rolls = <<12>>
    /\ result.total = 12

(***************************************************************************)
(* C19.  With both k<h> and x<l>, in either order and without a or d,      *)
(* keep-highest is applied first and keep-lowest to what it leaves: the    *)
(* returned rolls are the min(l', .) lowest of the min(h', len) highest    *)
(* values of the working set, where h' and l' are h and l, or the dice     *)
(* count N for a 0; "4d6k3x1" returns the third highest die.               *)
(***************************************************************************)
\* the keep step of an expression with k and x and neither a nor d
KeepBothStep == pc = "keep" /\ ~truncated /\ HasOption("k") /\ HasOption("x") /\ NoFlag
\* a and b hold the same values, each as often
SameValues(a, b) ==
    /\ Len(a) = Len(b)
    /\ \A v \in Range(a) \cup Range(b) : CountOf(a, v) = CountOf(b, v)
\* the l lowest of the h highest values of the working set
LowestOfHighest(working, h, l) ==
    LET top == SubSeq(SortedReverse(working), 1, Min(h, Len(working)))
    IN  SubSeq(Sorted(top), 1, Min(l, Len(top)))

C19_KeepHighestThenLowest ==
    [][KeepBothStep =>
          /\ SameValues(result'.rolls,
                        LowestOfHighest(rolls, KeepInForce("k"), KeepInForce("x")))
          /\ result'.total = Sum(result'.rolls) + WrittenModifier
          /\ (written.count = 4 /\ written.sides = 6) =>
                result'.rolls = <<SortedReverse(rolls)[3]>>]_vars

C19_Witness ==
    /\ api = "roll_advanced" /\ Finished
    /\ input = <<"4", "d", "6", "x", "1", "k", "3">>
    /\ draws = <<5, 2, 6, 3>>
    /\ result.rolls = <<3>>
    /\ result.total = 3

\* C19 as stated: the l lowest of the h highest with the written h and l
C19_AsStated ==
    [][KeepBothStep =>
          SameValues(result'.rolls,
                     LowestOfHighest(rolls, NumberAfter("k"), NumberAfter("x")))]_vars

(***************************************************************************)
(* C20.  roll_advanced("NdS!") with S >= 2 and nothing else written        *)
(* returns N chains one after the other, each of zero or more values equal *)
(* to S and then one value below S: every S is followed by another roll,   *)
(* the last value is below S, exactly N values are below S, every roll     *)
(* drawn is returned in the order drawn, and total is the sum of all of    *)
(* them, the maxima included.                                              *)
(***************************************************************************)
\* a finished call of roll_advanced("NdS!") whose re-rolls were all recorded
ExplodingOnly ==
    /\ api = "roll_advanced" /\ Finished /\ ~truncated
    /\ IsDice /\ ~OutOfRange
    /\ written.options = <<"!">> /\ written.sign = ""
    /\ written.sides >= 2
\* the values of r below s
Below(r, s) == SelectSeq(r, LAMBDA v : v < s)

C20_ExplodingChains ==
    ExplodingOnly =>
        /\ outcome = "returned"
        /\ result.rolls = draws
        /\ InRange(result.rolls, 1, written.sides)
        /\ \A j \in DOMAIN result.rolls :
              result.rolls[j] = written.sides => j < Len(result.rolls)
        /\ Len(result.rolls) >= 1
        /\ result.rolls[Len(result.rolls)] < written.sides
        /\ Len(Below(result.rolls, written.sides)) = written.count
        /\ result.total = Sum(result.rolls)

C20_Witness ==
    /\ ExplodingOnly
    /\ input = <<"2", "d", "3", "!">>
    /\ result.rolls = <<3, 3, 1, 2>>
    /\ result.total = 9

(***************************************************************************)
(* C21.  roll_advanced with r<n>, without a, d, k or x: with the threshold *)
(* t = n, or 1 when n is 0 or omitted, every die of the working set at or  *)
(* below t is replaced by one fresh roll, in the order of the dice, and is *)
(* left alone after that whatever the fresh value; a die above t keeps its *)
(* value; the number of dice does not change and the reroll draws once for *)
(* each die that was at or below t.                                        *)
(***************************************************************************)
\* a finished call with r, and ! at most, whose rolls were all recorded
RerollOnly ==
    /\ api = "roll_advanced" /\ Finished /\ ~truncated
    /\ IsDice /\ ~OutOfRange
    /\ HasOption("r") /\ NoFlag /\ ~HasOption("k") /\ ~HasOption("x")
\* the threshold in force: the written one, 1 when it is 0 or omitted
ThresholdInForce ==
    IF NumberOmitted("r") \/ NumberAfter("r") = 0 THEN 1 ELSE NumberAfter("r")
\* the result is the working set w with its dice at or below t replaced, in
\* order, by the draws that follow those of w
RerolledOnce(w, t) ==
    LET low == {j \in DOMAIN w : w[j] <= t}
    IN  /\ Len(result.rolls) = Len(w)
        /\ Len(draws) = Len(w) + Cardinality(low)
        /\ \A j \in DOMAIN w :
              result.rolls[j] = IF j \in low
                                THEN draws[Len(w) + Cardinality({k \in low : k <= j})]
                                ELSE w[j]
\* the working set: the first draws, as many as there are dice returned
WorkingSet == SubSeq(draws, 1, Len(result.rolls))
\* the working set is what was rolled before the reroll: N dice, or N chains
IsWorkingSet(w) ==
    IF HasOption("!")
    THEN /\ Len(Below(w, written.sides)) = written.count
         /\ w[Len(w)] < written.sides
    ELSE Len(w) = written.count

C21_RerollOnce ==
    RerollOnly =>
        /\ outcome = "returned"
        /\ Len(result.rolls) >= 1 /\ Len(result.rolls) <= Len(draws)
        /\ IsWorkingSet(WorkingSet)
        /\ RerolledOnce(WorkingSet, ThresholdInForce)
        /\ InRange(result.rolls, 1, written.sides)

\* a die at the threshold rerolled into one below it, and left there
C21_Witness ==
    /\ RerollOnly
    /\ input = <<"2", "d", "3", "r", "2">>
    /\ draws = <<2, 3, 1>>
    /\ result.rolls = <<1, 3>>

\* C21 as stated: the threshold is the written n, 1 only when n is omitted
C21_AsStated ==
    RerollOnly =>
        RerolledOnce(WorkingSet, IF NumberOmitted("r") THEN 1 ELSE NumberAfter("r"))

(***************************************************************************)
(* C22.  With a or d written, roll_advanced neither explodes, rerolls nor  *)
(* keeps, whatever !, r, k and x are written with it: it draws twice N     *)
(* times and returns one of the two sets of N values as rolled, each value *)
(* in 1..S; the modifier is still added.                                   *)
(***************************************************************************)
\* a finished call of an expression with a or d
FlagWritten ==
    /\ api = "roll_advanced" /\ Finished
    /\ IsDice /\ ~OutOfRange
    /\ ~NoFlag
\* one of !, r, k, x is written as well
OtherOptionWritten == \E tag \in {"!", "r", "k", "x"} : HasOption(tag)

C22_FlagSkipsOtherOptions ==
    FlagWritten =>
        /\ outcome = "returned"
        /\ ~truncated
        /\ Len(draws) = 2 * written.count
        /\ InRange(draws, 1, written.sides)
        /\ result.rolls \in {FirstRoll, SecondRoll}
        /\ Len(result.rolls) = written.count
        /\ result.total = Sum(result.rolls) + WrittenModifier

\* 2d2 with every option and a: the maxima do not explode, the 1 is not
\* rerolled, and both dice are kept
C22_Witness ==
    /\ FlagWritten /\ OtherOptionWritten
    /\ input = <<"2", "d", "2", "!", "r", "k", "1", "x", "1", "a", "+", "1">>
    /\ draws = <<2, 1, 1, 1>>
    /\ result.rolls = <<2, 1>>
    /\ result.total = 4

(***************************************************************************)
(* C23.  Every DiceRoll returned by roll, roll_advanced or                 *)
(* roll_with_context has total = sum(rolls) + m, with rolls the final set  *)
(* and m the signed modifier of the expression the DiceRoll is of: the     *)
(* modifier is added once, after selection, exploding, reroll and keep.    *)
(***************************************************************************)
\* the signed integer e ends with, 0 when it ends with none
SignedTail(e) ==
    LET starts == {p \in DOMAIN e :
                      /\ IsSign(e[p]) /\ p < Len(e)
                      /\ \A q \in (p + 1)..Len(e) : IsDigit(e[q])}
    IN  IF starts = {} THEN 0
        ELSE LET p == CHOOSE q \in starts : TRUE
                 v == StrToInt(SubSeq(e, p + 1, Len(e)))
             IN  IF e[p] = "-" THEN -v ELSE v
\* the result comes from roll: called directly, or by roll_with_context for a
\* check, a fallback or the last resort
FromRoll == api = "roll" \/ at \in {"check", "skill", "simple", "fallback", "last"}
\* the modifier of the expression the returned DiceRoll is of: the written
\* one, none where roll reads <count>d<sides> and stops at an option tag
ModifierOfResult ==
    IF IsDice /\ at # "last"
    THEN (IF FromRoll /\ written.options # <<>> THEN 0 ELSE WrittenModifier)
    ELSE SignedTail(arg)
\* a call of one of the three methods that returned a DiceRoll, of an input
\* without characters left over after the expression
ReturnedRoll ==
    /\ api \in {"roll", "roll_advanced", "roll_with_context"}
    /\ Finished /\ outcome = "returned"
    /\ input \notin Trailing

C23_TotalIsSumPlusModifier ==
    ReturnedRoll =>
        /\ result.total = Sum(result.rolls) + ModifierOfResult
        /\ (api = "roll_advanced" /\ IsDice) =>
              result.total = Sum(result.rolls) + WrittenModifier

\* 2d3k1-1: one die is kept of the two, and 1 is subtracted once
C23_Witness ==
    /\ ReturnedRoll /\ api = "roll_advanced"
    /\ input = <<"2", "d", "3", "k", "1", "-", "1">>
    /\ draws = <<2, 3>>
    /\ result.rolls = <<3>>
    /\ result.total = 2

(***************************************************************************)
(* C24.  With a character, "<word> check" whose word is not one of the     *)
(* character's abilities ("foo check", "2d6 check") is not rolled as an    *)
(* ability check: the expression of the result is not rewritten to         *)
(* "<WORD> check (...)", it is the input or the 1d20 of the later rules.   *)
(***************************************************************************)
\* a finished roll_with_context of "<word> check" with a word Hero has no
\* ability of
UnknownAbilityCheck ==
    /\ api = "roll_with_context" /\ Finished
    /\ character = Hero
    /\ input \in {FooCheck, TwoD6Check}

C24_UnknownAbilityNotACheck ==
    UnknownAbilityCheck =>
        /\ outcome = "returned"
        /\ result.expression \in {input, D20}
        /\ input = TwoD6Check => Len(result.rolls) = 2

(***************************************************************************)
(* C25.  roll_with_context reads its input lower-cased and trimmed:        *)
(* "2D6+3" rolls two six-sided dice plus 3 as "2d6+3" does, and " 5 "      *)
(* rolls 1d20+5 as "5" does.                                               *)
(***************************************************************************)
\* a finished roll_with_context, without a character, of the input e
ContextRollOf(e) ==
    /\ api = "roll_with_context" /\ Finished
    /\ character = NoCharacter
    /\ input = e

C25_CaseAndSpacesIgnored ==
    /\ ContextRollOf(Upper2d6) =>
          /\ outcome = "returned"
          /\ Len(result.rolls) = 2
          /\ result.total = Sum(result.rolls) + 3
    /\ ContextRollOf(Spaced5) =>
          /\ outcome = "returned"
          /\ Len(result.rolls) = 1
          /\ result.total = Sum(result.rolls) + 5

(***************************************************************************)
(* C26.  roll and roll_advanced raise when the whole string is not of      *)
(* their form: a valid head with more after it ("2d6abc", "2d6+",          *)
(* "2d6+3xyz") is rejected before any die is rolled.                       *)
(***************************************************************************)
\* a finished roll or roll_advanced of a valid head with more after it
TrailingCall ==
    /\ api \in {"roll", "roll_advanced"} /\ Finished
    /\ input \in Trailing

C26_TrailingCharactersRejected ==
    TrailingCall => outcome = "raised" /\ draws = <<>>

(***************************************************************************)
(* C27.  In roll_with_context the fallback to roll never gives a result:   *)
(* whenever roll_advanced raised for a string, roll raises for the same    *)
(* string, so a DiceRoll returned after a failure of roll_advanced is the  *)
(* bare 1d20 of the last resort.                                           *)
(***************************************************************************)
\* roll_with_context has left roll_advanced through its except ValueError
AfterAdvancedFailure ==
    /\ api = "roll_with_context"
    /\ at \in {"simple", "fallback", "last"}
    /\ ability_match(Lower(input)).found \/ skill_match(Lower(input)).found
          => character = NoCharacter
\* roll would raise for e
RollRaises(e) ==
    LET p == parse_expression(e)
    IN  ~p.ok \/ ~RollValidate(p.num_dice, p.sides)

C27_SimpleFallbackNeverReturns ==
    AfterAdvancedFailure =>
        /\ at \in {"simple", "fallback"} => RollRaises(arg) /\ arg = expression
        /\ draws # <<>> => at = "last"
        /\ (Finished /\ outcome = "returned") =>
              /\ at = "last"
              /\ result.expression = D20
              /\ Len(result.rolls) = 1
              /\ result.total = result.rolls[1]

\* 101d6+5: too many dice for roll_advanced and for roll, a bare 1d20 is returned
C27_Witness ==
    /\ AfterAdvancedFailure /\ Finished /\ outcome = "returned"
    /\ input = <<"1", "0", "1", "d", "6", "+", "5">>
    /\ at = "last"
    /\ result.expression = D20
    /\ result.rolls = <<20>>
    /\ result.total = 20

(***************************************************************************)
(* C28.  On a valid expression NdS, NdS+M or NdS-M, roll and roll_advanced *)
(* agree: given the same draws both draw exactly N times and return the    *)
(* same rolls and the same total.                                          *)
(***************************************************************************)
\* roll_advanced has finished on the valid simple expression roll was
\* called with before, on the draws of roll
BothEnginesFinished ==
    /\ Finished /\ first.made
    /\ (IsPlain \/ IsSimple) /\ ~OutOfRange

C28_RollAndRollAdvancedAgree ==
    BothEnginesFinished =>
        /\ api = "roll_advanced"
        /\ first.outcome = "returned" /\ outcome = "returned"
        /\ Len(first.draws) = written.count
        /\ draws = first.draws
        /\ result.rolls = first.result.rolls
        /\ result.total = first.result.total

C28_Witness ==
    /\ BothEnginesFinished
    /\ input = <<"2", "d", "6", "-", "1">>
    /\ draws = <<6, 4>>
    /\ first.result.total = 9
    /\ result.total = 9
    /\ result.rolls = <<6, 4>>

(***************************************************************************)
(* C29.  Every DiceRoll roll_advanced returns has at least one roll and    *)
(* all its rolls in 1..S, whatever the options: a keep count written 0     *)
(* ("k0", "x0") keeps the dice an omitted count keeps, so the keep step    *)
(* never discards every die.                                               *)
(***************************************************************************)
\* roll_advanced has returned a DiceRoll for a written expression
AdvancedReturned ==
    /\ api = "roll_advanced" /\ Finished /\ outcome = "returned"
    /\ IsDice
\* k0 or x0 is written, and neither !, r, a nor d
KeepZeroWritten ==
    /\ NoFlag /\ ~HasOption("!") /\ ~HasOption("r")
    /\ \E tag \in {"k", "x"} :
          HasOption(tag) /\ ~NumberOmitted(tag) /\ NumberAfter(tag) = 0

C29_RollsNeverEmpty ==
    AdvancedReturned =>
        /\ Len(result.rolls) >= 1
        /\ InRange(result.rolls, 1, written.sides)
        /\ (KeepZeroWritten /\ ~(HasOption("k") /\ HasOption("x"))) =>
              result.rolls = draws /\ Len(draws) = written.count

C29_Witness ==
    /\ AdvancedReturned /\ KeepZeroWritten
    /\ input = <<"2", "d", "3", "x", "0">>
    /\ draws = <<3, 1>>
    /\ result.rolls = <<3, 1>>

(***************************************************************************)
(* C30.  In roll_advanced only the signed integer at the very end of the   *)
(* options is the modifier.  One followed by an option tag or by another   *)
(* signed integer is accepted and adds nothing to total: the tag after it  *)
(* still acts ("1d20+5a" rolls with advantage and modifier 0) and the last *)
(* signed integer alone is added ("1d20+5+3" has modifier +3).             *)
(***************************************************************************)
\* a finished roll_advanced of an expression with a signed integer that is
\* not the last thing written
MidSignedCall ==
    /\ api = "roll_advanced" /\ Finished /\ ~truncated
    /\ written \in MidSignedInputs

C30_OnlyTrailingSignedIntegerCounts ==
    MidSignedCall =>
        /\ outcome = "returned"
        /\ result.total = Sum(result.rolls) + WrittenModifier
        /\ ~NoFlag =>
              /\ Len(draws) = 2 * written.count
              /\ result.rolls \in {FirstRoll, SecondRoll}
        /\ HasOption("a") => Sum(result.rolls) = Max(Sum(FirstRoll), Sum(SecondRoll))
        /\ HasOption("d") => Sum(result.rolls) = Min(Sum(FirstRoll), Sum(SecondRoll))
        /\ HasOption("k") => Len(result.rolls) = 1 /\ Len(draws) = written.count
        /\ HasOption("!") => Len(Below(result.rolls, written.sides)) = written.count
        /\ written.options = <<"+", "5">> => result.total = result.rolls[1] + 3

\* 1d20+5a: the better of two d20 and nothing added
C30_Witness ==
    /\ MidSignedCall
    /\ input = <<"1", "d", "2", "0", "+", "5", "a">>
    /\ draws = <<7, 12>>
    /\ result.rolls = <<12>>
    /\ result.total = 12

====
